---- MODULE Spec2Model ----
(***************************************************************************)
(* Model of pycaret's time-series forecasting experiment                   *)
(* (pycaret/time_series/forecasting/oop.py, TSForecastingExperiment) and   *)
(* of its preprocessor mix-in.  The experiment object is the record        *)
(* `session`; the estimator handle held by the caller is `est`; `last`     *)
(* records the outcome of the most recent call (its error, its return      *)
(* value and what it showed).                                              *)
(*                                                                         *)
(* Time indices are the integers 1..n of a table with n rows.  A horizon   *)
(* is a record [type, n, vals]: the Python type of the value, its integer  *)
(* value when it is an int, and its sequence of offsets (or of absolute    *)
(* index keys for an absolute ForecastingHorizon) otherwise.               *)
(***************************************************************************)
EXTENDS Integers, Sequences, FiniteSets, TLC

(***************************************************************************)
(* Bounds of the model.                                                    *)
(***************************************************************************)
MaxN == 7
MaxFold == 3
MaxFhInt == 2

NRange == (MaxN - 2)..MaxN
FoldRange == 1..MaxFold

(***************************************************************************)
(* Generic helpers.                                                        *)
(***************************************************************************)
Range(q) == {q[i] : i \in 1..Len(q)}

SetMax(S) == CHOOSE m \in S : \A x \in S : x <= m

SetMin(S) == CHOOSE m \in S : \A x \in S : m <= x

\* np.arange(1, n + 1)
arange1(n) == [i \in 1..n |-> i]

\* the elements of a set of integers in increasing order (a sorted pandas index)
RECURSIVE SortedSeq(_)
SortedSeq(S) == IF S = {} THEN << >>
                ELSE LET m == SetMin(S) IN <<m>> \o SortedSeq(S \ {m})

(***************************************************************************)
(* Horizons.                                                               *)
(***************************************************************************)
FhNone == [type |-> "none", n |-> 0, vals |-> << >>]
FhInt(k) == [type |-> "int", n |-> k, vals |-> << >>]
FhList(q) == [type |-> "list", n |-> 0, vals |-> q]
FhArray(q) == [type |-> "ndarray", n |-> 0, vals |-> q]
\* ForecastingHorizon(index, is_relative=False)
FhAbsolute(q) == [type |-> "ForecastingHorizon", n |-> 0, vals |-> q]
\* a value of a type that is no horizon at all (a str, a float, ...)
FhStr == [type |-> "str", n |-> 0, vals |-> << >>]

\* lists of offsets a caller passes: contiguous, with gaps, out of order,
\* with a zero offset, empty
FhSeqs == {<<1>>, <<2>>, <<1, 2>>, <<2, 3>>, <<1, 3>>, <<2, 1>>, <<0, 1>>, << >>}

\* values of the fh argument of setup and of predict_model
FhInputs == {FhNone, FhStr} \cup {FhInt(k) : k \in 0..MaxFhInt}
            \cup {FhList(q) : q \in FhSeqs} \cup {FhArray(<<1, 2>>)}

(***************************************************************************)
(* _check_fh: the horizon made compatible with sktime, or the error.       *)
(***************************************************************************)
\* variant: an integer is expanded from zero, as np.arange(fh) would
_check_fh_from_zero(fh) ==
    IF fh.type = "int"
    THEN IF fh.n >= 1
         THEN [fh |-> FhArray([i \in 1..fh.n |-> i - 1]), err |-> "none"]
         ELSE [fh |-> fh, err |-> "InvalidHorizonError"]
    ELSE IF fh.type = "list"
    THEN [fh |-> FhArray(fh.vals), err |-> "none"]
    ELSE IF fh.type \in {"ndarray", "ForecastingHorizon"}
    THEN [fh |-> fh, err |-> "none"]
    ELSE [fh |-> fh, err |-> "InvalidHorizonTypeError"]

_check_fh(fh) ==
    IF fh.type = "int"
    THEN IF fh.n >= 1
         THEN [fh |-> FhArray(arange1(fh.n)), err |-> "none"]
         ELSE [fh |-> fh, err |-> "InvalidHorizonError"]
    ELSE IF fh.type = "list"
    THEN [fh |-> FhArray(fh.vals), err |-> "none"]
    ELSE IF fh.type \in {"ndarray", "ForecastingHorizon"}
    THEN [fh |-> fh, err |-> "none"]
    ELSE [fh |-> fh, err |-> "InvalidHorizonTypeError"]

(***************************************************************************)
(* Input tables.  A table has n rows indexed 1..n; `cols` are its column   *)
(* labels, `index_type` the type of its index, `dup` whether the index has *)
(* duplicate values, `numeric` whether column "y" holds numbers,           *)
(* `y_missing`/`X_missing` whether the target / the other columns hold     *)
(* NaN, and `freq_sp` the seasonal period of the index frequency.          *)
(* A table may hold a date column (`date_col`, kept apart from `cols`):    *)
(* `date_dup` tells whether its values repeat, `to_datetime` whether       *)
(* pd.to_datetime keeps distinct values distinct or makes two of them      *)
(* equal, and `to_period` what DatetimeIndex.to_period() does to a         *)
(* datetime index of the table: keep distinct stamps distinct, put two of  *)
(* them in one period, or raise for want of a frequency.                   *)
(***************************************************************************)
NoData == [n |-> 0, cols |-> << >>, index_type |-> "unset", dup |-> FALSE, numeric |-> TRUE, y_missing |-> FALSE, X_missing |-> FALSE, freq_sp |-> 0,
           date_col |-> "none", date_dup |-> FALSE, to_datetime |-> "distinct", to_period |-> "distinct"]

GoodData(k) == [NoData EXCEPT !.n = k, !.cols = <<"y">>, !.index_type = "period", !.freq_sp = 4]

\* one table per defect that a check of setup looks for
DefectData ==
    { [GoodData(MaxN - 2) EXCEPT !.dup = TRUE],
      [GoodData(MaxN - 2) EXCEPT !.index_type = "range", !.freq_sp = 0],
      [GoodData(MaxN - 2) EXCEPT !.index_type = "datetime"],
      [GoodData(MaxN - 2) EXCEPT !.numeric = FALSE],
      [GoodData(MaxN - 2) EXCEPT !.y_missing = TRUE],
      [GoodData(MaxN - 2) EXCEPT !.cols = <<"y", "x">>],
      [GoodData(MaxN - 2) EXCEPT !.cols = <<"y", "x">>, !.X_missing = TRUE] }

\* tables with a date column next to a range index
DatedData ==
    { [GoodData(MaxN - 2) EXCEPT !.index_type = "range", !.date_col = "date", !.date_dup = dd, !.to_datetime = td, !.to_period = tp] :
          dd \in BOOLEAN, td \in {"distinct", "collapse"}, tp \in {"distinct", "collapse", "nofreq"} }

(***************************************************************************)
(* Cross-validation splitters (sktime ExpandingWindowSplitter and          *)
(* SlidingWindowSplitter, built with start_with_window=True).              *)
(***************************************************************************)
NoCV == [kind |-> "none", initial_window |-> 0, step_length |-> 0, fh |-> FhNone]

ExpandingWindowSplitter(iw, step, fh) == [kind |-> "ExpandingWindowSplitter", initial_window |-> iw, step_length |-> step, fh |-> fh]

SlidingWindowSplitter(step, wl, fh) == [kind |-> "SlidingWindowSplitter", initial_window |-> wl, step_length |-> step, fh |-> fh]

\* splitter objects a caller builds and passes as fold_strategy or fold
CvObjects == {ExpandingWindowSplitter(2, 1, FhArray(<<1>>)), ExpandingWindowSplitter(1, 2, FhArray(<<1, 2>>))}

\* cv.get_n_splits(y): the windows that fit in a series of y_size rows
get_n_splits(cv, y_size) ==
    LET need == cv.initial_window + SetMax(Range(cv.fh.vals))
    IN IF y_size < need THEN 0 ELSE ((y_size - need) \div cv.step_length) + 1

\* cv.split(y): fold k ends its training window at row
\* initial_window + (k - 1) * step_length; the expanding window starts at
\* the first row, the sliding window holds initial_window rows; the test
\* rows are the offsets of the horizon after the end of the window
split(cv, y_size) ==
    [k \in 1..get_n_splits(cv, y_size) |->
        LET end == cv.initial_window + (k - 1) * cv.step_length
        IN [train |-> IF cv.kind = "SlidingWindowSplitter" THEN (end - cv.initial_window + 1)..end ELSE 1..end,
            test |-> {end + v : v \in Range(cv.fh.vals)}]]

\* the fold_strategy argument: a name, or a splitter object
StrategyName(s) == [name |-> s, cv |-> NoCV]
StrategyObject(cv) == [name |-> "object", cv |-> cv]

possible_time_series_fold_strategies == {"expanding", "sliding", "rolling"}

is_sklearn_cv_generator(fold_strategy) == fold_strategy.name = "object"

(***************************************************************************)
(* Estimators and pipelines.  An estimator records the index it was last   *)
(* fit on (`y`, its _y.index) and the horizon it saw in fit; `kind` tells  *)
(* a bare forecaster ("model") from a whole pipeline ("pipeline") and from *)
(* the placeholder of setup ("dummy"); `insample` is whether the model     *)
(* family implements in-sample prediction, `nan_rows` for how many of the  *)
(* first rows of its training series its in-sample prediction is NaN.      *)
(***************************************************************************)
NoEstimator == [kind |-> "none", y |-> {}, fh |-> FhNone, fitted |-> FALSE, insample |-> TRUE, nan_rows |-> 0]

DummyForecaster == [NoEstimator EXCEPT !.kind = "dummy"]

\* a fresh, unfitted forecaster of a model family (create_model's estimator)
NewModel(ins) == [NoEstimator EXCEPT !.kind = "model", !.insample = ins]

\* the model families create_model is called with
ModelFamilies == {NewModel(TRUE), NewModel(FALSE), [NewModel(TRUE) EXCEPT !.nan_rows = 1]}

\* pipeline.fit(y, X, fh) seen from its last step: the forecaster is fit on
\* the (transformed) series, whose index is that of y
fit(e, y, fh) == [e EXCEPT !.y = y, !.fh = fh, !.fitted = TRUE]

\* A pipeline: its object identity (`obj`: "none", "setup", "load" for the
\* session's own objects, "clone" for a copy), its steps and its last step.
NoPipeline == [obj |-> "none", target_steps |-> << >>, exogenous_steps |-> << >>, model |-> NoEstimator, y |-> {}, fh |-> FhNone, fitted |-> FALSE]

\* PyCaretForecastingPipeline.fit: fits every step, the forecaster last
pipeline_fit(p, y, fh) == [p EXCEPT !.model = fit(p.model, y, fh), !.y = y, !.fh = fh, !.fitted = TRUE]

_create_pipeline(obj, dummy_model, target_steps, exogenous_steps) ==
    [NoPipeline EXCEPT !.obj = obj, !.target_steps = target_steps \o <<"dummy_model">>, !.exogenous_steps = exogenous_steps \o <<"forecaster">>, !.model = dummy_model]

\* the steps lists after the call: a non-empty list is extended in place
\* (`target_steps or []` keeps the caller's list unless it is empty)
_create_pipeline_steps(steps, added) == IF steps = << >> THEN steps ELSE steps \o <<added>>

(***************************************************************************)
(* The experiment object.  An attribute that has not been assigned holds   *)
(* its "unset"/"none" value.  `origin` is bookkeeping for the checks: for  *)
(* each attribute, whether it was assigned by the most recent call of      *)
(* setup ("cur"), by an earlier call ("old") or never ("unset").           *)
(***************************************************************************)
OriginFields == {"target_param", "fh", "data", "idx", "fold_generator", "pipeline"}

\* a target series handed to a statistical test: its rows, the target
\* steps it went through, and the rows those steps were fitted on
NoSeries == [index |-> {}, steps |-> << >>, fitted_on |-> {}]

NewSession ==
    [ _setup_ran |-> FALSE,
      index_type |-> "unset",
      target_param |-> "unset",
      exogenous_variables |-> << >>,
      approach_type |-> "unset",
      exogenous_present |-> "unset",
      fh |-> FhNone,
      data |-> NoData,
      idx |-> [train |-> {}, test |-> {}],
      fold_strategy |-> "unset",
      fold_param |-> 0,
      fold_generator |-> NoCV,
      target_has_missing |-> FALSE,
      exogenous_has_missing |-> FALSE,
      pipe_steps_target |-> << >>,
      pipe_steps_exogenous |-> << >>,
      pipeline |-> NoPipeline,
      seasonal_period |-> [single |-> FALSE, vals |-> << >>],
      seasonality_present |-> FALSE,
      all_sp_values |-> << >>,
      primary_sp_to_use |-> 0,
      seasonality_tested_on |-> NoSeries,
      transform_target_kwargs |-> "None",
      transform_exogenous_kwargs |-> "(None,)",
      origin |-> [f \in OriginFields |-> "unset"] ]

\* hasattr(self, "fh"), hasattr(self, "X_test"): the attribute exists once
\* a call has assigned self.fh, resp. self.data and self.idx
has_fh(s) == s.fh.type # "none"
has_X_test(s) == s.data.n > 0

\* self.y, self.y_train, self.y_test as index sets (derived from data, idx)
y_index(s) == 1..s.data.n
y_train_index(s) == s.idx.train
y_test_index(s) == s.idx.test

\* self.y_transformed and self.y_train_transformed: the target of the whole
\* table, resp. of the training split, passed through the fitted pipeline
y_transformed(s) == [index |-> y_index(s), steps |-> s.pipeline.target_steps, fitted_on |-> s.pipeline.y]
y_train_transformed(s) == [index |-> y_train_index(s), steps |-> s.pipeline.target_steps, fitted_on |-> s.pipeline.y]

Assigned(s, f) == [s EXCEPT !.origin[f] = "cur"]

Aged(s) == [s EXCEPT !.origin = [f \in OriginFields |-> IF s.origin[f] = "unset" THEN "unset" ELSE "old"]]

(***************************************************************************)
(* The checks of setup, in the order setup runs them.  Each returns the    *)
(* error it raises ("none" when it passes) and what it computed.           *)
(***************************************************************************)
\* variant: a datetime index is kept as it is
_check_and_clean_index_keeping_datetime(data, index, seasonal_period) ==
    IF index # "none" /\ index # data.date_col
    THEN [data |-> data, err |-> "IndexNotAColumn"]
    ELSE IF index # "none" /\ ~data.date_dup /\ data.to_datetime = "collapse"
    THEN [data |-> data, err |-> "IndexCoercionError"]
    ELSE
    LET data1 == IF index = "none" THEN data
                 ELSE [data EXCEPT !.index_type = "datetime", !.date_col = "none",
                                   !.dup = data.date_dup \/ data.to_datetime = "collapse"]
    IN IF data1.dup
       THEN [data |-> data1, err |-> "DuplicateIndexError"]
       ELSE IF data1.index_type \notin {"period", "datetime"} /\ seasonal_period = << >>
       THEN [data |-> data1, err |-> "UnresolvableSeasonalityError"]
       ELSE [data |-> data1, err |-> "none"]

\* index: "none" for no index column, else the column's name
_check_and_clean_index(data, index, seasonal_period) ==
    IF index # "none" /\ index # data.date_col
    THEN [data |-> data, err |-> "IndexNotAColumn"]
    ELSE IF index # "none" /\ ~data.date_dup /\ data.to_datetime = "collapse"
    THEN [data |-> data, err |-> "IndexCoercionError"]
    ELSE
    LET data1 == IF index = "none" THEN data
                 ELSE [data EXCEPT !.index_type = "datetime", !.date_col = "none",
                                   !.dup = data.date_dup \/ data.to_datetime = "collapse"]
    IN IF data1.dup
       THEN [data |-> data1, err |-> "DuplicateIndexError"]
       ELSE IF data1.index_type \notin {"period", "datetime"} /\ seasonal_period = << >>
       THEN [data |-> data1, err |-> "UnresolvableSeasonalityError"]
       ELSE IF data1.index_type = "datetime"
       THEN IF data1.to_period = "nofreq"
            THEN [data |-> data1, err |-> "PeriodConversionError"]
            ELSE [data |-> [data1 EXCEPT !.index_type = "period", !.dup = (data1.to_period = "collapse")], err |-> "none"]
       ELSE [data |-> data1, err |-> "none"]

\* a target given as a list of column names is written as one token;
\* like the Python list it is equal to no column name
ListTargets == {"[y]", "[y, x]"}
is_list(target) == target \in ListTargets
list_items(target) == IF target = "[y]" THEN <<"y">> ELSE <<"y", "x">>

\* variant: without a target the first column is taken, whatever the
\* number of columns
_return_target_names_first_column(data, target) ==
    IF Len(data.cols) = 1 /\ target # "none" /\ target # data.cols[1]
    THEN [target |-> target, err |-> "TargetMismatchError"]
    ELSE IF target = "none"
    THEN [target |-> data.cols[1], err |-> "none"]
    ELSE [target |-> target, err |-> "none"]

\* target: "none" for target=None, else a column name
_return_target_names(data, target) ==
    IF Len(data.cols) > 1 /\ target = "none"
    THEN [target |-> target, err |-> "MissingTargetError"]
    ELSE IF Len(data.cols) = 1 /\ target # "none" /\ target # data.cols[1]
    THEN [target |-> target, err |-> "TargetMismatchError"]
    ELSE IF Len(data.cols) = 1 /\ target = "none"
    THEN [target |-> data.cols[1], err |-> "none"]
    ELSE [target |-> target, err |-> "none"]

_check_and_set_targets(data, target) ==
    LET r == _return_target_names(data, target)
        target1 == IF is_list(r.target) /\ Len(list_items(r.target)) = 1 THEN list_items(r.target)[1] ELSE r.target
    IN IF r.err # "none" THEN r
       ELSE IF target1 \notin Range(data.cols)
       THEN [target |-> target1, err |-> "TargetNotPresentError"]
       ELSE IF target1 = "y" /\ ~data.numeric
       THEN [target |-> target1, err |-> "NonNumericTargetError"]
       ELSE [target |-> target1, err |-> "none"]

\* the approach and the presence of exogenous variables, from
\* self.target_param and self.exogenous_variables
_check_and_set_forecsting_types(s) ==
    IF is_list(s.target_param)
    THEN [s |-> [s EXCEPT !.approach_type = "MULTI"], err |-> "UnsupportedApproachError"]
    ELSE [s |-> [s EXCEPT !.approach_type = "UNI", !.exogenous_present = IF Len(s.exogenous_variables) > 0 THEN "YES" ELSE "NO"],
          err |-> "none"]

_return_exogenous_names(data, target) == SelectSeq(data.cols, LAMBDA c : c # target)

\* variant: the splitter's horizon is used only when the caller gave none
_check_and_set_fh_caller_first(fh, fold_strategy) ==
    IF fh.type = "none" /\ fold_strategy.name # "object"
    THEN [fh |-> fh, err |-> "MissingHorizonError"]
    ELSE IF fh.type # "none" /\ fh.type \notin {"int", "list", "ndarray"}
    THEN [fh |-> fh, err |-> "FhTypeError"]
    ELSE IF fold_strategy.name = "object" /\ fh.type = "none"
    THEN _check_fh(fold_strategy.cv.fh)
    ELSE _check_fh(fh)

_check_and_set_fh(fh, fold_strategy) ==
    IF fh.type = "none" /\ fold_strategy.name # "object"
    THEN [fh |-> fh, err |-> "MissingHorizonError"]
    ELSE IF fh.type # "none" /\ fh.type \notin {"int", "list", "ndarray"}
    THEN [fh |-> fh, err |-> "FhTypeError"]
    ELSE IF fold_strategy.name = "object"
    THEN _check_fh(fold_strategy.cv.fh)
    ELSE _check_fh(fh)

\* variant: the test set is the whole suffix after the training set
temporal_train_test_split_suffix(n, fh) ==
    LET steps == Range(fh.vals)
    IN IF steps = {}
       THEN [train |-> {}, test |-> {}, err |-> "EmptyHorizonError"]
       ELSE IF \E v \in steps : v < 1
       THEN [train |-> {}, test |-> {}, err |-> "InSampleHorizonError"]
       ELSE IF SetMax(steps) > n
       THEN [train |-> {}, test |-> {}, err |-> "IndexError"]
       ELSE [train |-> 1..(n - SetMax(steps)), test |-> (n - SetMax(steps) + 1)..n, err |-> "none"]

\* sktime's temporal_train_test_split(y, X, fh) for a relative horizon: the
\* last max(fh) rows are cut off the training set, and the test set holds
\* the rows at the horizon's offsets from the end of the training set.
temporal_train_test_split(n, fh) ==
    LET steps == Range(fh.vals)
    IN IF steps = {}
       THEN [train |-> {}, test |-> {}, err |-> "EmptyHorizonError"]
       ELSE IF \E v \in steps : v < 1
       THEN [train |-> {}, test |-> {}, err |-> "InSampleHorizonError"]
       ELSE IF SetMax(steps) > n
       THEN [train |-> {}, test |-> {}, err |-> "IndexError"]
       ELSE [train |-> 1..(n - SetMax(steps)), test |-> {n - SetMax(steps) + v : v \in steps}, err |-> "none"]

\* variant: every fold, the last one included, is charged a step
initial_window_all_folds(y_size, fh, fold) == y_size - (fold * Len(fh.vals) + 1 * SetMax(Range(fh.vals)))

\* the window arithmetic of get_fold_generator for an integer fold
initial_window(y_size, fh, fold) == y_size - ((fold - 1) * Len(fh.vals) + 1 * SetMax(Range(fh.vals)))

\* get_fold_generator(fold, fold_strategy) of a session whose training set
\* has y_size rows; fold is [type, n, cv]: None, an int, or a splitter
FoldNone == [type |-> "none", n |-> 0, cv |-> NoCV]
FoldInt(k) == [type |-> "int", n |-> k, cv |-> NoCV]
FoldObject(cv) == [type |-> "object", n |-> 0, cv |-> cv]

\* variant: the folds are a span of the horizon apart
get_fold_generator_step_by_span(s, fold, fold_strategy) ==
    IF fold.type = "none"
    THEN IF s.fold_generator.kind = "none"
         THEN [cv |-> NoCV, err |-> "FoldGeneratorUndefinedError"]
         ELSE [cv |-> s.fold_generator, err |-> "none"]
    ELSE IF fold.type # "int"
    THEN [cv |-> fold.cv, err |-> "none"]
    ELSE IF ~has_X_test(s) \/ ~has_fh(s)
    THEN [cv |-> NoCV, err |-> "AttributeError"]
    ELSE IF s.fh.vals = << >>
    THEN [cv |-> NoCV, err |-> "EmptySequenceError"]
    ELSE LET y_size == Cardinality(y_train_index(s))
             iw == initial_window(y_size, s.fh, fold.n)
             strategy == IF fold_strategy = "none" THEN s.fold_strategy ELSE fold_strategy
         IN IF iw < 1
            THEN [cv |-> NoCV, err |-> "InsufficientDataError"]
            ELSE IF strategy \in {"expanding", "rolling"}
            THEN [cv |-> ExpandingWindowSplitter(iw, SetMax(Range(s.fh.vals)), s.fh), err |-> "none"]
            ELSE IF strategy = "sliding"
            THEN [cv |-> SlidingWindowSplitter(SetMax(Range(s.fh.vals)), iw, s.fh), err |-> "none"]
            ELSE [cv |-> NoCV, err |-> "UnboundLocalError"]

get_fold_generator(s, fold, fold_strategy) ==
    IF fold.type = "none"
    THEN IF s.fold_generator.kind = "none"
         THEN [cv |-> NoCV, err |-> "FoldGeneratorUndefinedError"]
         ELSE [cv |-> s.fold_generator, err |-> "none"]
    ELSE IF fold.type # "int"
    THEN [cv |-> fold.cv, err |-> "none"]
    ELSE IF ~has_X_test(s) \/ ~has_fh(s)
    THEN [cv |-> NoCV, err |-> "AttributeError"]
    ELSE IF s.fh.vals = << >>
    THEN [cv |-> NoCV, err |-> "EmptySequenceError"]
    ELSE LET y_size == Cardinality(y_train_index(s))
             iw == initial_window(y_size, s.fh, fold.n)
             strategy == IF fold_strategy = "none" THEN s.fold_strategy ELSE fold_strategy
         IN IF iw < 1
            THEN [cv |-> NoCV, err |-> "InsufficientDataError"]
            ELSE IF strategy \in {"expanding", "rolling"}
            THEN [cv |-> ExpandingWindowSplitter(iw, Len(s.fh.vals), s.fh), err |-> "none"]
            ELSE IF strategy = "sliding"
            THEN [cv |-> SlidingWindowSplitter(Len(s.fh.vals), iw, s.fh), err |-> "none"]
            ELSE [cv |-> NoCV, err |-> "UnboundLocalError"]

(***************************************************************************)
(* The seasonal periods: the candidates are the caller's hint or, without  *)
(* a hint, the period of the index frequency; tests[i] is the outcome of   *)
(* the autocorrelation test for candidate i.  self.seasonal_period is the  *)
(* candidate itself when there is one, else the list (`single`).           *)
(***************************************************************************)
\* variant: without a positive test the candidates themselves are kept
_check_and_set_seasonal_period_keeping_candidates(s, data, seasonal_period, tests) ==
    LET cands == IF seasonal_period = << >> THEN <<data.freq_sp>> ELSE seasonal_period
        idxs == {i \in 1..Len(cands) : tests[i]}
        detected == [k \in 1..Cardinality(idxs) |-> cands[SortedSeq(idxs)[k]]]
        all_sp == IF detected = << >> THEN cands ELSE detected
    IN [tested_on |-> y_transformed(s), seasonal_period |-> [single |-> Len(cands) = 1, vals |-> cands], seasonality_present |-> \E i \in 1..Len(cands) : tests[i],
        all_sp_values |-> all_sp, primary_sp_to_use |-> all_sp[1]]

_check_and_set_seasonal_period(s, data, seasonal_period, tests) ==
    LET cands == IF seasonal_period = << >> THEN <<data.freq_sp>> ELSE seasonal_period
        idxs == {i \in 1..Len(cands) : tests[i]}
        detected == [k \in 1..Cardinality(idxs) |-> cands[SortedSeq(idxs)[k]]]
        all_sp == IF detected = << >> THEN <<1>> ELSE detected
    IN [tested_on |-> y_transformed(s), seasonal_period |-> [single |-> Len(cands) = 1, vals |-> cands], seasonality_present |-> \E i \in 1..Len(cands) : tests[i],
        all_sp_values |-> all_sp, primary_sp_to_use |-> all_sp[1]]

(***************************************************************************)
(* setup.  `a` holds the arguments; the result is the session as the call  *)
(* leaves it and the error it raised ("none" for a call that returns).     *)
(* An attribute assigned before the raising check keeps its new value.     *)
(***************************************************************************)
DefaultArgs ==
    [ data |-> GoodData(MaxN - 2), target |-> "none", index |-> "none",
      numeric_imputation_target |-> "none", numeric_imputation_exogenous |-> "none",
      transform_target |-> "none", transform_exogenous |-> "none",
      scale_target |-> "none", scale_exogenous |-> "none",
      fold_strategy |-> StrategyName("expanding"), fold |-> 1, fh |-> FhInt(1),
      seasonal_period |-> << >>, sp_tests |-> <<TRUE, TRUE>>, preprocess |-> TRUE ]

\* variant: the exogenous steps are asked for whether or not the table has
\* exogenous columns
setup_preprocess_any_exogenous(s, a) ==
    IF /\ a.preprocess
       /\ \/ a.numeric_imputation_target # "none"
          \/ a.numeric_imputation_exogenous # "none"
          \/ a.transform_target # "none"
          \/ a.transform_exogenous # "none"
          \/ a.scale_target # "none"
          \/ a.scale_exogenous # "none"
    THEN "UnexpectedKeywordTypeError"
    ELSE "none"

\* the preprocessing steps of setup: every call passes the keywords
\* (numeric_imputation=, transform=, scale=, target=), which the step
\* builders of TSForecastingPreprocessor do not accept
setup_preprocess(s, a) ==
    IF /\ a.preprocess
       /\ \/ a.numeric_imputation_target # "none"
          \/ (s.exogenous_present = "YES" /\ a.numeric_imputation_exogenous # "none")
          \/ a.transform_target # "none"
          \/ (s.exogenous_present = "YES" /\ a.transform_exogenous # "none")
          \/ a.scale_target # "none"
          \/ (s.exogenous_present = "YES" /\ a.scale_exogenous # "none")
    THEN "UnexpectedKeywordTypeError"
    ELSE "none"

\* from the fold checks to the end of setup
setup_folds_on(s7, a) ==
    IF ~(a.fold_strategy.name \in possible_time_series_fold_strategies \/ is_sklearn_cv_generator(a.fold_strategy))
    THEN [s |-> s7, err |-> "InvalidConfigError"]
    ELSE
    LET named == a.fold_strategy.name \in possible_time_series_fold_strategies
        s8 == IF named THEN [s7 EXCEPT !.fold_strategy = a.fold_strategy.name, !.fold_param = a.fold] ELSE s7
        r_cv == IF named THEN get_fold_generator(s8, FoldInt(a.fold), "none") ELSE [cv |-> a.fold_strategy.cv, err |-> "none"]
    IN IF r_cv.err # "none" THEN [s |-> s8, err |-> r_cv.err] ELSE
    LET s9 == Assigned([s8 EXCEPT !.fold_generator = r_cv.cv, !.fold_param = IF named THEN a.fold ELSE get_n_splits(r_cv.cv, Cardinality(y_train_index(s8)))], "fold_generator")
        s10 == [s9 EXCEPT !.target_has_missing = s9.data.y_missing, !.exogenous_has_missing = (Len(s9.exogenous_variables) > 0 /\ s9.data.X_missing)]
    IN IF s10.target_has_missing /\ a.numeric_imputation_target = "none"
       THEN [s |-> s10, err |-> "MissingValuesError"]
       ELSE IF s10.exogenous_has_missing /\ a.numeric_imputation_exogenous = "none"
       THEN [s |-> s10, err |-> "MissingValuesError"]
       ELSE
    LET s11 == [s10 EXCEPT !.pipe_steps_target = << >>, !.pipe_steps_exogenous = << >>]
    IN IF setup_preprocess(s11, a) # "none" THEN [s |-> s11, err |-> setup_preprocess(s11, a)] ELSE
    LET pipe == _create_pipeline("setup", DummyForecaster, s11.pipe_steps_target, s11.pipe_steps_exogenous)
        s12 == Assigned([s11 EXCEPT !.pipe_steps_target = _create_pipeline_steps(@, "dummy_model"),
                                     !.pipe_steps_exogenous = _create_pipeline_steps(@, "forecaster"),
                                     !.pipeline = pipeline_fit(pipe, y_train_index(s11), s11.fh)], "pipeline")
        sp == _check_and_set_seasonal_period(s12, s12.data, a.seasonal_period, a.sp_tests)
        s13 == [s12 EXCEPT !.seasonality_tested_on = sp.tested_on,
                           !.seasonal_period = sp.seasonal_period, !.seasonality_present = sp.seasonality_present,
                           !.all_sp_values = sp.all_sp_values, !.primary_sp_to_use = sp.primary_sp_to_use]
    IN [s |-> [s13 EXCEPT !._setup_ran = TRUE], err |-> "none"]

setup(s, a) ==
    LET s0 == Aged(s)
        r_idx == _check_and_clean_index(a.data, a.index, a.seasonal_period)
    IN IF r_idx.err # "none" THEN [s |-> s0, err |-> r_idx.err] ELSE
    LET s2 == [s0 EXCEPT !.index_type = r_idx.data.index_type]
        r_t == _check_and_set_targets(r_idx.data, a.target)
    IN IF r_t.err # "none" THEN [s |-> s2, err |-> r_t.err] ELSE
    LET s3 == Assigned([s2 EXCEPT !.target_param = r_t.target, !.exogenous_variables = _return_exogenous_names(r_idx.data, r_t.target)], "target_param")
        r_ft == _check_and_set_forecsting_types(s3)
    IN IF r_ft.err # "none" THEN r_ft ELSE
    LET s5 == r_ft.s
        r_fh == _check_and_set_fh(a.fh, a.fold_strategy)
    IN IF r_fh.err # "none" THEN [s |-> s5, err |-> r_fh.err] ELSE
    LET s6 == Assigned([s5 EXCEPT !.fh = r_fh.fh], "fh")
        r_sp == temporal_train_test_split(r_idx.data.n, s6.fh)
    IN IF r_sp.err # "none" THEN [s |-> s6, err |-> r_sp.err] ELSE
    LET s7 == Assigned(Assigned([s6 EXCEPT !.data = r_idx.data, !.idx = [train |-> r_sp.train, test |-> r_sp.test]], "data"), "idx")
    IN setup_folds_on(s7, a)

(***************************************************************************)
(* Provenance and prediction.                                              *)
(***************************************************************************)
\* _add_model_to_pipeline(pipeline, model): a copy of the pipeline with its
\* last step replaced by the model
_add_model_to_pipeline(pipeline, model) == [pipeline EXCEPT !.obj = "clone", !.model = model]

\* variant: a series that starts with the training rows counts as the
\* training series
_get_y_X_used_for_training_by_prefix(s, estimator) ==
    IF y_train_index(s) \subseteq estimator.y
    THEN [y |-> y_train_index(s), which |-> "train", err |-> "none"]
    ELSE IF Cardinality(estimator.y) = Cardinality(y_index(s)) /\ estimator.y = y_index(s)
    THEN [y |-> y_index(s), which |-> "full", err |-> "none"]
    ELSE [y |-> {}, which |-> "neither", err |-> "ProvenanceError"]

\* which session series the estimator was trained on
_get_y_X_used_for_training(s, estimator) ==
    IF Cardinality(estimator.y) = Cardinality(y_train_index(s)) /\ estimator.y = y_train_index(s)
    THEN [y |-> y_train_index(s), which |-> "train", err |-> "none"]
    ELSE IF Cardinality(estimator.y) = Cardinality(y_index(s)) /\ estimator.y = y_index(s)
    THEN [y |-> y_index(s), which |-> "full", err |-> "none"]
    ELSE [y |-> {}, which |-> "neither", err |-> "ProvenanceError"]

\* the index a fitted forecaster predicts for a horizon: offsets count from
\* the end of the series it was fit on, absolute keys are taken as they are
predicted_index(estimator, fh) ==
    IF fh.type = "ForecastingHorizon" THEN Range(fh.vals)
    ELSE {SetMax(estimator.y) + v : v \in Range(fh.vals)}

\* the horizon predict_model uses
resolve_fh(s, estimator_, fh) ==
    IF fh.type = "none"
    THEN IF ~has_fh(s) THEN [fh |-> estimator_.fh, err |-> "none"] ELSE [fh |-> s.fh, err |-> "none"]
    ELSE _check_fh(fh)

\* variant: a horizon given by the caller does not switch the scores off
loaded_in_same_env_any_fh(s, fh) == has_X_test(s)

\* whether predict_model goes on to score the prediction on the test set
loaded_in_same_env(s, fh) == ~(~has_X_test(s) \/ fh.type # "none")

\* what a step builder constructed: the class and the keyword arguments
NotBuilt == [class |-> "none", kwargs |-> "none"]

\* A fit_kwargs value: None, or a dictionary.  `obj` tells whose object the
\* dictionary is ("caller": the one the caller passed, "local": one made
\* during the call), `keys` are its keys and `fh` the value under "fh".
KwargsNone == [obj |-> "none", keys |-> {}, fh |-> FhNone]

Dict(obj, keys, fh) == [obj |-> obj, keys |-> keys, fh |-> fh]

\* `if not fit_kwargs: fit_kwargs = {}`
fit_kwargs_or_empty(fit_kwargs) ==
    IF fit_kwargs.obj = "none" \/ fit_kwargs.keys = {} THEN Dict("local", {}, FhNone) ELSE fit_kwargs

\* update_fit_kwargs_with_fh_from_cv(fit_kwargs, cv): None gives a new
\* dictionary, a dictionary is updated in place and returned
update_fit_kwargs_with_fh_from_cv(fit_kwargs, cv) ==
    IF fit_kwargs.obj = "none"
    THEN Dict("local", {"fh"}, cv.fh)
    ELSE [fit_kwargs EXCEPT !.keys = @ \cup {"fh"}, !.fh = cv.fh]

NoResult == [err |-> "none", fh |-> FhNone, pred |-> {}, which |-> "none", metrics |-> "none", verbose |-> FALSE, stored |-> FALSE,
             resid |-> {}, returned_none |-> FALSE, msg |-> "none", built |-> NotBuilt, fit_kwargs |-> KwargsNone]

\* predict_model(estimator, fh, verbose): the error raised, the horizon
\* used, the predicted index, whether scores were computed from data
\* ("computed"), set to NaN ("nan") or not made at all ("none"), whether the
\* score grid was shown (verbose) and stored in display_container
predict_model(s, estimator, fh, verbose) ==
    IF ~estimator.fitted THEN [NoResult EXCEPT !.err = "NotFittedError"]
    ELSE IF s.pipeline.obj = "none" THEN [NoResult EXCEPT !.err = "AttributeError"]
    ELSE
    LET estimator_ == estimator
        pipeline_with_model == _add_model_to_pipeline(s.pipeline, estimator_)
        verbose1 == IF loaded_in_same_env(s, fh) THEN verbose ELSE FALSE
        r_fh == resolve_fh(s, estimator_, fh)
    IN IF r_fh.err # "none" THEN [NoResult EXCEPT !.err = r_fh.err, !.fh = fh]
       ELSE IF r_fh.fh.vals = << >> THEN [NoResult EXCEPT !.err = "EmptyHorizonError", !.fh = r_fh.fh]
       ELSE
    LET pred == predicted_index(pipeline_with_model.model, r_fh.fh)
    IN IF ~estimator_.insample /\ (\E i \in pred : i <= SetMax(estimator_.y))
       THEN [NoResult EXCEPT !.err = "NotImplementedError", !.fh = r_fh.fh]
       ELSE IF ~loaded_in_same_env(s, fh)
       THEN [NoResult EXCEPT !.fh = r_fh.fh, !.pred = pred]
       ELSE
    LET y_test == y_test_index(s)
        r_y == _get_y_X_used_for_training(s, estimator)
        verbose2 == IF Cardinality(pred) # Cardinality(y_test) THEN FALSE ELSE verbose1
        y_test_and_pred == pred \cap y_test
    IN IF r_y.err # "none" THEN [NoResult EXCEPT !.err = r_y.err, !.fh = r_fh.fh, !.which = r_y.which]
       ELSE IF y_test_and_pred = {}
       THEN [NoResult EXCEPT !.fh = r_fh.fh, !.pred = pred, !.which = r_y.which, !.metrics = "nan", !.verbose = FALSE, !.stored = TRUE]
       ELSE [NoResult EXCEPT !.fh = r_fh.fh, !.pred = pred, !.which = r_y.which, !.metrics = "computed", !.verbose = verbose2, !.stored = TRUE]

(***************************************************************************)
(* Training.  Each helper returns the session's pipeline as the call       *)
(* leaves it (`pipeline`), the object it returns (`ret`) and the error.    *)
(***************************************************************************)
\* the whole fitted pipeline object as the caller sees it: an estimator
\* whose _y is the series passed to fit
AsEstimator(p) == [p.model EXCEPT !.kind = "pipeline"]

_get_final_model_from_pipeline(pipeline) == pipeline.model

\* variant: the model is put into the session's pipeline itself, which is
\* then fit
_create_model_without_cv_in_place(s, model, data_y, fh, predict) ==
    LET pipeline_with_model == pipeline_fit([s.pipeline EXCEPT !.model = model], data_y, fh)
        r_p == IF predict THEN predict_model(s, AsEstimator(pipeline_with_model), FhNone, FALSE) ELSE NoResult
    IN [pipeline |-> pipeline_with_model, ret |-> AsEstimator(pipeline_with_model), err |-> r_p.err, res |-> r_p]

_create_model_without_cv(s, model, data_y, fh, predict) ==
    LET pipeline_with_model == pipeline_fit(_add_model_to_pipeline(s.pipeline, model), data_y, fh)
        r_p == IF predict THEN predict_model(s, AsEstimator(pipeline_with_model), FhNone, FALSE) ELSE NoResult
    IN [pipeline |-> s.pipeline, ret |-> AsEstimator(pipeline_with_model), err |-> r_p.err, res |-> r_p]

\* res.fit_kwargs is the dictionary the folds were fit with
_create_model_with_cv(s, model, data_y, cv, refit, fit_kwargs) ==
    LET pipeline_with_model == _add_model_to_pipeline(s.pipeline, model)
        fit_kwargs1 == update_fit_kwargs_with_fh_from_cv(fit_kwargs, cv)
        refitted == IF refit THEN pipeline_fit(pipeline_with_model, data_y, cv.fh) ELSE pipeline_with_model
    IN [pipeline |-> s.pipeline, ret |-> _get_final_model_from_pipeline(refitted), err |-> "none",
        res |-> [NoResult EXCEPT !.fit_kwargs = fit_kwargs1]]

(***************************************************************************)
(* State: the experiment object, the estimator the caller holds, and the   *)
(* outcome of the most recent call.                                        *)
(***************************************************************************)
VARIABLES session, est, last

vars == <<session, est, last>>

\* the outcome of a call: its name, its result (error, horizon used, index
\* predicted, scores), the arguments the checks look at, and the splitter
\* it built
\* `args` holds the arguments of a call of setup
NoArgs == [DefaultArgs EXCEPT !.data = NoData]

\* no file: the value of `art` in the outcome of every call but load_model
NoArtifact == [bundled |-> FALSE, model |-> NoEstimator]

\* a selector of a preprocessing step: its Python type and its value
Sel(type, val) == [type |-> type, val |-> val]

\* the call of a step builder: its selector, its channel and the step lists
\* before the call
NoStepCall == [selector |-> Sel("NoneType", "None"), target |-> TRUE, pipe_steps_target |-> << >>, pipe_steps_exogenous |-> << >>]

\* a series passed as an argument: its index and the rows that hold NaN
NoSeriesArg == [index |-> {}, nan |-> {}]

Outcome(op, res, fh, fold, strategy, cv) ==
    [op |-> op, res |-> res, arg_fh |-> fh, fold |-> fold, strategy |-> strategy, cv |-> cv, args |-> NoArgs, art |-> NoArtifact,
     call |-> NoStepCall, fit_kwargs |-> KwargsNone, resid |-> NoSeriesArg]

Failed(e) == [NoResult EXCEPT !.err = e]

Init ==
    /\ session = NewSession
    /\ est = NoEstimator
    /\ last = Outcome("init", NoResult, FhNone, 0, "none", NoCV)

(***************************************************************************)
(* Arguments of setup: every horizon, fold count and fold strategy on the  *)
(* well-formed tables, and one call per defect of the table or of the      *)
(* other arguments.                                                        *)
(***************************************************************************)
Strategies == {StrategyName(s) : s \in possible_time_series_fold_strategies \cup {"bogus"}} \cup {StrategyObject(cv) : cv \in CvObjects}

\* every choice of the preprocessing options, on a table without and on a
\* table with an exogenous column, with preprocessing switched on or off
PreprocessArgs ==
    { [DefaultArgs EXCEPT !.data = [GoodData(MaxN - 2) EXCEPT !.cols = c], !.target = "y", !.preprocess = pp,
                          !.numeric_imputation_target = it, !.transform_target = tt, !.scale_target = st,
                          !.numeric_imputation_exogenous = ie, !.transform_exogenous = te, !.scale_exogenous = se] :
          c \in {<<"y">>, <<"y", "x">>}, pp \in BOOLEAN,
          it \in {"none", "mean"}, tt \in {"none", "log"}, st \in {"none", "zscore"},
          ie \in {"none", "mean"}, te \in {"none", "log"}, se \in {"none", "zscore"} }

SetupArgs ==
    { [DefaultArgs EXCEPT !.data = GoodData(k), !.fh = f, !.fold = n, !.fold_strategy = st] :
          k \in NRange, f \in FhInputs, n \in FoldRange, st \in Strategies }
    \cup { [DefaultArgs EXCEPT !.data = d] : d \in DefectData }
    \cup { [DefaultArgs EXCEPT !.data = d, !.target = tg] : d \in DefectData, tg \in {"y", "x", "z"} \cup ListTargets }
    \cup { [DefaultArgs EXCEPT !.data = d, !.target = "y", !.numeric_imputation_target = "mean", !.numeric_imputation_exogenous = ie] : d \in DefectData, ie \in {"none", "mean"} }
    \cup { [DefaultArgs EXCEPT !.data = d, !.seasonal_period = sp, !.sp_tests = ts] : d \in DefectData, sp \in {<<2>>, <<2, 3>>}, ts \in {<<FALSE, FALSE>>, <<FALSE, TRUE>>} }
    \cup { [DefaultArgs EXCEPT !.sp_tests = <<FALSE, FALSE>>], [DefaultArgs EXCEPT !.index = "date"],
           [DefaultArgs EXCEPT !.scale_target = "zscore"], [DefaultArgs EXCEPT !.transform_target = "log"] }
    \cup PreprocessArgs
    \cup { [DefaultArgs EXCEPT !.data = d, !.index = ix, !.seasonal_period = sp] :
              d \in DatedData, ix \in {"none", "date"}, sp \in {<< >>, <<2>>} }

SetupWith(args) ==
    \E a \in args :
        LET r == setup(session, a)
        IN /\ session' = r.s
           /\ last' = [Outcome("setup", Failed(r.err), a.fh, a.fold, a.fold_strategy.name, a.fold_strategy.cv) EXCEPT !.args = a]
           /\ UNCHANGED est

\* the first call of setup on a new experiment object
SetupFresh == session = NewSession /\ SetupWith(SetupArgs)

\* setup called again on the same object, after a call that returned or
\* raised: a call that works and one call per check that can raise
RetryArgs ==
    { [DefaultArgs EXCEPT !.data = GoodData(k), !.fh = f] : k \in NRange, f \in {FhInt(1), FhList(<<1, 3>>)} }
    \cup { [DefaultArgs EXCEPT !.data = d] : d \in DefectData }
    \cup { [DefaultArgs EXCEPT !.data = GoodData(MaxN), !.fh = f] : f \in {FhNone, FhInt(0), FhList(<<0, 1>>)} }
    \cup { [DefaultArgs EXCEPT !.data = GoodData(MaxN), !.fh = FhInt(2), !.fold_strategy = st, !.fold = MaxFold] : st \in Strategies }

SetupAgain == SetupWith(RetryArgs)

\* setup in a session that is then used for modelling: called until it
\* returns
LifeArgs ==
    { [DefaultArgs EXCEPT !.data = GoodData(k), !.fh = f, !.fold_strategy = st] :
          k \in NRange, f \in {FhInt(1), FhInt(2), FhList(<<1, 3>>), FhInt(0)}, st \in {StrategyName("expanding"), StrategyName("bogus")} }

SetupOnce == ~session._setup_ran /\ SetupWith(LifeArgs)

(***************************************************************************)
(* get_fold_generator called by the user.                                  *)
(***************************************************************************)
FoldArgs == {FoldNone} \cup {FoldInt(k) : k \in FoldRange} \cup {FoldObject(cv) : cv \in CvObjects}

GetFoldGenerator ==
    \E fold \in FoldArgs, st \in {"none", "expanding", "sliding", "rolling", "bogus"} :
        LET r == get_fold_generator(session, fold, st)
        IN /\ last' = Outcome("get_fold_generator", Failed(r.err), FhNone, fold.n, st, r.cv)
           /\ UNCHANGED <<session, est>>

(***************************************************************************)
(* create_model.  The supervised base class resolves the splitter, hands   *)
(* the training split to one of the two helpers and returns what the       *)
(* helper returns.                                                         *)
(***************************************************************************)
\* the dictionaries a caller passes as fit_kwargs
FitKwargs == {KwargsNone, Dict("caller", {}, FhNone), Dict("caller", {"X"}, FhNone), Dict("caller", {"fh"}, FhList(<<1>>))}

\* the caller's dictionary after a call that left `used` behind: the
\* dictionary itself when the call worked on the caller's object
after_call(fit_kwargs, used) == IF used.obj = "caller" THEN used ELSE fit_kwargs

create_model(s, model, fold, cross_validation, fit_kwargs) ==
    LET r_cv == get_fold_generator(s, fold, "none")
        data_y == y_train_index(s)
        fit_kwargs1 == fit_kwargs_or_empty(fit_kwargs)
    IN IF cross_validation /\ r_cv.err # "none"
       THEN [pipeline |-> s.pipeline, ret |-> NoEstimator, err |-> r_cv.err, res |-> Failed(r_cv.err)]
       ELSE IF (IF cross_validation THEN r_cv.cv.fh ELSE s.fh).vals = << >>
       THEN [pipeline |-> s.pipeline, ret |-> NoEstimator, err |-> "EmptyHorizonError", res |-> Failed("EmptyHorizonError")]
       ELSE IF cross_validation
       THEN _create_model_with_cv(s, model, data_y, r_cv.cv, TRUE, fit_kwargs1)
       ELSE _create_model_without_cv(s, model, data_y, s.fh, TRUE)

\* create_model called with one of the dictionaries `kwargs` as fit_kwargs
CreateModelWith(kwargs) ==
    /\ session._setup_ran
    /\ \E model \in ModelFamilies, fold \in FoldArgs, cross_validation \in BOOLEAN, fit_kwargs \in kwargs :
        LET r == create_model(session, model, fold, cross_validation, fit_kwargs)
        IN /\ session' = [session EXCEPT !.pipeline = r.pipeline]
           /\ est' = IF r.err = "none" THEN r.ret ELSE est
           /\ last' = [Outcome(IF cross_validation THEN "create_model_cv" ELSE "create_model",
                               [r.res EXCEPT !.err = r.err, !.fit_kwargs = after_call(fit_kwargs, @)], FhNone, 0, "none", NoCV)
                       EXCEPT !.fit_kwargs = fit_kwargs]

\* create_model without fit_kwargs
CreateModel == CreateModelWith({KwargsNone})

(***************************************************************************)
(* tune_model: the search runs on copies; the tuned model is built by      *)
(* create_model with cross-validation, and with choose_better the original *)
(* estimator may be returned instead.                                      *)
(***************************************************************************)
clone(estimator) == [NewModel(estimator.insample) EXCEPT !.nan_rows = estimator.nan_rows]

tune_model(s, estimator, fold, fit_kwargs) ==
    LET r_cv == get_fold_generator(s, fold, "none")
        fit_kwargs1 == update_fit_kwargs_with_fh_from_cv(fit_kwargs_or_empty(fit_kwargs), r_cv.cv)
        r == create_model(s, clone(estimator), fold, TRUE, fit_kwargs1)
    IN IF r_cv.err # "none"
       THEN [pipeline |-> s.pipeline, ret |-> NoEstimator, err |-> r_cv.err, res |-> Failed(r_cv.err)]
       ELSE IF r.err # "none"
       THEN [r EXCEPT !.res.fit_kwargs = fit_kwargs1]
       ELSE r

\* tune_model called with one of the dictionaries `kwargs` as fit_kwargs
TuneModelWith(kwargs) ==
    /\ session._setup_ran
    /\ est.kind # "none"
    /\ \E fold \in FoldArgs, choose_better_keeps_original \in BOOLEAN, fit_kwargs \in kwargs :
        LET r == tune_model(session, est, fold, fit_kwargs)
        IN /\ session' = [session EXCEPT !.pipeline = r.pipeline]
           /\ est' = IF r.err # "none" \/ choose_better_keeps_original THEN est ELSE r.ret
           /\ last' = [Outcome("tune_model", [r.res EXCEPT !.err = r.err, !.fit_kwargs = after_call(fit_kwargs, @)], FhNone, 0, "none", NoCV)
                       EXCEPT !.fit_kwargs = fit_kwargs]

\* tune_model without fit_kwargs
TuneModel == TuneModelWith({KwargsNone})

(***************************************************************************)
(* finalize_model: the estimator's pipeline refit on the full data with    *)
(* the session's horizon.                                                  *)
(***************************************************************************)
finalize_model(s, estimator) ==
    IF s.fh.vals = << >>
    THEN [pipeline |-> s.pipeline, ret |-> NoEstimator, err |-> "EmptyHorizonError", res |-> Failed("EmptyHorizonError")]
    ELSE _create_model_without_cv(s, clone(estimator), y_index(s), s.fh, FALSE)

FinalizeModel ==
    /\ session._setup_ran
    /\ est.kind # "none"
    /\ LET r == finalize_model(session, est)
       IN /\ session' = [session EXCEPT !.pipeline = r.pipeline]
          /\ est' = IF r.err = "none" THEN r.ret ELSE est
          /\ last' = Outcome("finalize_model", [r.res EXCEPT !.err = r.err], FhNone, 0, "none", NoCV)

(***************************************************************************)
(* predict_model called by the user.                                       *)
(***************************************************************************)
\* the horizons given to predict_model: none, integers, lists with a gap,
\* with an in-sample offset and without offsets, and an array
PredictFh == {FhNone, FhInt(0), FhInt(1), FhInt(2), FhList(<<1, 3>>), FhList(<<0, 1>>), FhList(<< >>), FhArray(<<1, 2>>)}

PredictModel ==
    /\ est.kind # "none"
    /\ \E fh \in PredictFh, verbose \in BOOLEAN :
        /\ last' = Outcome("predict_model", predict_model(session, est, fh, verbose), fh, 0, "none", NoCV)
        /\ UNCHANGED <<session, est>>

(***************************************************************************)
(* get_residuals and get_insample_predictions.                             *)
(***************************************************************************)
get_insample_predictions(s, estimator) ==
    LET r_y == _get_y_X_used_for_training(s, estimator)
    IN IF r_y.err # "none" THEN [NoResult EXCEPT !.err = r_y.err, !.which = r_y.which]
       ELSE LET r == predict_model(s, estimator, FhAbsolute(SortedSeq(r_y.y)), TRUE)
            IN IF r.err = "NotImplementedError" THEN [NoResult EXCEPT !.which = r_y.which, !.returned_none = TRUE]
               ELSE [r EXCEPT !.which = r_y.which]

\* the rows of its training series for which the in-sample prediction of
\* the estimator is NaN
nan_predictions(estimator) == {i \in estimator.y : Cardinality({j \in estimator.y : j < i}) < estimator.nan_rows}

\* y - insample_predictions: the series are aligned on the union of their
\* indices; a row is NaN when a side lacks it or the prediction is NaN
subtract(y, pred, nan) == [index |-> y \cup pred, nan |-> ((y \cup pred) \ (y \cap pred)) \cup (pred \cap nan)]

\* np.all(resid.index != y.index) compares position by position and holds
\* when the indices differ at every position; dropna removes the NaN rows
_check_and_clean_resid(s, resid) ==
    LET y_train == SortedSeq(y_train_index(s))
        y_all == SortedSeq(y_index(s))
        index == SortedSeq(resid.index)
    IN IF Len(index) = Len(y_train)
       THEN IF \A i \in 1..Len(index) : index[i] # y_train[i]
            THEN [index |-> {}, err |-> "ResidualIndexError"]
            ELSE [index |-> resid.index \ resid.nan, err |-> "none"]
       ELSE IF Len(index) = Len(y_all)
       THEN IF \A i \in 1..Len(index) : index[i] # y_all[i]
            THEN [index |-> {}, err |-> "ResidualIndexError"]
            ELSE [index |-> resid.index \ resid.nan, err |-> "none"]
       ELSE [index |-> {}, err |-> "ResidualIndexError"]

\* variant: the residuals are always taken against the training series
get_residuals_against_train(s, estimator) ==
    IF ~has_X_test(s) THEN Failed("AttributeError")
    ELSE LET r_y == _get_y_X_used_for_training(s, estimator)
         IN IF r_y.err # "none" THEN [NoResult EXCEPT !.err = r_y.err, !.which = r_y.which]
            ELSE LET insample_predictions == get_insample_predictions(s, estimator)
                 IN IF insample_predictions.err # "none" \/ insample_predictions.returned_none
                    THEN insample_predictions
                    ELSE LET r == _check_and_clean_resid(s, subtract(y_train_index(s), insample_predictions.pred, nan_predictions(estimator)))
                         IN [insample_predictions EXCEPT !.err = r.err, !.resid = r.index]

\* the index of the residuals in `resid`; `returned_none` for None
get_residuals(s, estimator) ==
    IF ~has_X_test(s) THEN Failed("AttributeError")
    ELSE LET r_y == _get_y_X_used_for_training(s, estimator)
         IN IF r_y.err # "none" THEN [NoResult EXCEPT !.err = r_y.err, !.which = r_y.which]
            ELSE LET insample_predictions == get_insample_predictions(s, estimator)
                 IN IF insample_predictions.err # "none" \/ insample_predictions.returned_none
                    THEN insample_predictions
                    ELSE LET r == _check_and_clean_resid(s, subtract(r_y.y, insample_predictions.pred, nan_predictions(estimator)))
                         IN [insample_predictions EXCEPT !.err = r.err, !.resid = r.index]

GetResiduals ==
    /\ est.kind # "none"
    /\ last' = Outcome("get_residuals", get_residuals(session, est), FhNone, 0, "none", NoCV)
    /\ UNCHANGED <<session, est>>

(***************************************************************************)
(* load_model.  The file holds either a fitted pipeline or a bare fitted   *)
(* estimator; it may come from this session or from another one.           *)
(***************************************************************************)
SavedModels == {fit(NewModel(TRUE), 1..k, FhArray(<<1, 2>>)) : k \in {MaxN - 3, MaxN - 2}}

Artifacts == {[bundled |-> b, model |-> m] : b \in BOOLEAN, m \in SavedModels}

\* variant: the pipeline built around a bare estimator is fit on the
\* training series and the horizon of the session
load_model_fit_on_session(s, art) ==
    IF art.bundled
    THEN [s EXCEPT !.pipeline = [pipeline_fit(_create_pipeline("load", art.model, << >>, << >>), art.model.y, art.model.fh) EXCEPT !.target_steps = <<"model">>],
                   !.origin["pipeline"] = "load"]
    ELSE [s EXCEPT !.pipeline = pipeline_fit(_create_pipeline("load", art.model, << >>, << >>), y_train_index(s), s.fh),
                   !.fh = art.model.fh,
                   !.origin["pipeline"] = "load", !.origin["fh"] = "load"]

\* variant: the session horizon is taken from every loaded file
load_model_taking_fh(s, art) ==
    IF art.bundled
    THEN [s EXCEPT !.pipeline = [pipeline_fit(_create_pipeline("load", art.model, << >>, << >>), art.model.y, art.model.fh) EXCEPT !.target_steps = <<"model">>],
                   !.fh = art.model.fh,
                   !.origin["pipeline"] = "load", !.origin["fh"] = "load"]
    ELSE [s EXCEPT !.pipeline = pipeline_fit(_create_pipeline("load", art.model, << >>, << >>), art.model.y, art.model.fh),
                   !.fh = art.model.fh,
                   !.origin["pipeline"] = "load", !.origin["fh"] = "load"]

load_model(s, art) ==
    IF art.bundled
    THEN [s EXCEPT !.pipeline = [pipeline_fit(_create_pipeline("load", art.model, << >>, << >>), art.model.y, art.model.fh) EXCEPT !.target_steps = <<"model">>],
                   !.origin["pipeline"] = "load"]
    ELSE [s EXCEPT !.pipeline = pipeline_fit(_create_pipeline("load", art.model, << >>, << >>), art.model.y, art.model.fh),
                   !.fh = art.model.fh,
                   !.origin["pipeline"] = "load", !.origin["fh"] = "load"]

LoadModel ==
    \E art \in Artifacts :
        /\ session' = load_model(session, art)
        /\ est' = _get_final_model_from_pipeline(session'.pipeline)
        /\ last' = [Outcome("load_model", NoResult, FhNone, 0, IF art.bundled THEN "bundled" ELSE "bare", NoCV) EXCEPT !.art = art]

\* a new experiment, set up once, and its fold generators
NextSetup == SetupFresh \/ GetFoldGenerator

SpecSetup == Init /\ [][NextSetup]_vars

\* setup called repeatedly on one experiment object
NextRetry == SetupAgain

SpecRetry == Init /\ [][NextRetry]_vars

\* the life of a session: setup, then models are created, tuned, finalized,
\* used for prediction and loaded from files
Next ==
    \/ SetupOnce
    \/ CreateModel
    \/ TuneModel
    \/ FinalizeModel
    \/ PredictModel
    \/ GetResiduals
    \/ LoadModel

Spec == Init /\ [][Next]_vars

(***************************************************************************)
(* The horizon checks on their own: a horizon value is drawn, then         *)
(* _check_fh or _check_and_set_fh is applied to it.                        *)
(***************************************************************************)
MaxFhLen == 3

SeqsUpTo(S, n) == UNION {[1..k -> S] : k \in 0..n}

FhDomain ==
    {FhNone, FhStr} \cup {FhInt(k) : k \in (0 - MaxFhInt)..MaxFhInt}
    \cup {FhList(q) : q \in SeqsUpTo(0..MaxFhInt, MaxFhLen)}
    \cup {FhArray(q) : q \in SeqsUpTo(0..MaxFhInt, MaxFhLen)}
    \cup {FhAbsolute(arange1(k)) : k \in 1..MaxFhLen}

InitFh ==
    /\ session = NewSession
    /\ est = NoEstimator
    /\ \E fh \in FhDomain : last = Outcome("input", NoResult, fh, 0, "none", NoCV)

CheckFh ==
    /\ last.op = "input"
    /\ LET r == _check_fh(last.arg_fh)
       IN last' = Outcome("_check_fh", [NoResult EXCEPT !.err = r.err, !.fh = r.fh], last.arg_fh, 0, "none", NoCV)
    /\ UNCHANGED <<session, est>>

CheckAndSetFh ==
    /\ last.op = "input"
    /\ \E st \in Strategies :
        LET r == _check_and_set_fh(last.arg_fh, st)
        IN /\ last' = Outcome("_check_and_set_fh", [NoResult EXCEPT !.err = r.err, !.fh = r.fh], last.arg_fh, 0, st.name, st.cv)
           /\ session' = IF r.err = "none" THEN Assigned([session EXCEPT !.fh = r.fh], "fh") ELSE session
    /\ UNCHANGED est

NextFh == CheckFh \/ CheckAndSetFh

SpecFh == InitFh /\ [][NextFh]_vars

(***************************************************************************)
(* Properties.                                                             *)
(***************************************************************************)
NoMixture(s) == \A f, g \in OriginFields : s.origin[f] = s.origin[g]

\* C1: setup is all-or-nothing.  After a call of setup that raised, the
\* session is not left marked as set up while its fields (fh, target, data,
\* train/test indices, fold generator, pipeline) come partly from the
\* failed call and partly from an earlier one.
C1_SetupAllOrNothing ==
    (last.op = "setup" /\ last.res.err # "none" /\ session._setup_ran) => NoMixture(session)

\* the window of the fold generator, from the training length N, the fold
\* count F, the horizon cardinality L and the horizon's largest offset H
WindowOf(N, F, L, H) == N - ((F - 1) * L + H)

FoldBuildAgrees(s, F, err, cv) ==
    LET N == Cardinality(s.idx.train)
        L == Len(s.fh.vals)
        H == SetMax(Range(s.fh.vals))
        w == WindowOf(N, F, L, H)
    IN /\ (err = "none") <=> (w >= 1)
       /\ (err = "InsufficientDataError") <=> (w < 1)
       /\ (w >= 1) => (cv.kind # "none" /\ cv.initial_window = w /\ cv.step_length = L /\ cv.fh = s.fh)

\* C8: for a named fold strategy and an integer fold count F the fold
\* generator is built with initial_window = N - ((F-1)*L + H) and step
\* length L; the build succeeds exactly when that window is >= 1 and fails
\* with the insufficient-data error exactly when it is < 1.  This holds for
\* get_fold_generator called by the user and for the call made by setup
\* (where a later check of setup may still raise), and on the figures
\* N = 100, fh = 1..12: F = 3 gives 64, F = 8 gives 4, F = 9 gives -8.
C8_FoldWindow ==
    /\ (/\ last.op = "get_fold_generator"
        /\ last.fold >= 1
        /\ (IF last.strategy = "none" THEN session.fold_strategy ELSE last.strategy) \in possible_time_series_fold_strategies
        /\ has_X_test(session)
        /\ session.fh.vals # << >>)
       => FoldBuildAgrees(session, last.fold, last.res.err, last.cv)
    /\ (/\ last.op = "setup"
        /\ session.origin["idx"] = "cur"
        /\ last.strategy \in possible_time_series_fold_strategies)
       => LET w == WindowOf(Cardinality(session.idx.train), last.fold, Len(session.fh.vals), SetMax(Range(session.fh.vals)))
          IN /\ (last.res.err = "InsufficientDataError") <=> (w < 1)
             /\ (w >= 1) => /\ session.fold_generator.initial_window = w
                            /\ session.fold_generator.step_length = Len(session.fh.vals)
    /\ initial_window(100, FhArray(arange1(12)), 3) = 64
    /\ initial_window(100, FhArray(arange1(12)), 8) = 4
    /\ initial_window(100, FhArray(arange1(12)), 9) = 0 - 8

C8_Witness ==
    /\ last.op = "get_fold_generator"
    /\ last.res.err = "InsufficientDataError"
    /\ last.fold = MaxFold
    /\ session._setup_ran

SetupReturned == last.op = "setup" /\ last.res.err = "none"

\* C9 as stated: after every successful setup, for a contiguous or a gapped
\* horizon, train and test are disjoint, their union is the full index,
\* every train index precedes every test index, and the test set is as long
\* as the horizon's span.
C9_SplitPartitions ==
    SetupReturned =>
        /\ session.idx.train \cap session.idx.test = {}
        /\ session.idx.train \cup session.idx.test = y_index(session)
        /\ \A i \in session.idx.train, j \in session.idx.test : i < j
        /\ Cardinality(session.idx.test) = SetMax(Range(session.fh.vals))

\* C9: after every successful setup train and test are disjoint, every
\* train index precedes every test index, the training set is the first
\* N - max(fh) rows, and the test set holds exactly the rows at the
\* horizon's offsets after the training set, so it has as many rows as the
\* horizon has offsets; the two sets cover the full index exactly when the
\* horizon has no gaps.
C9_SplitByHorizon ==
    SetupReturned =>
        LET offsets == Range(session.fh.vals)
            H == SetMax(offsets)
            N == session.data.n
        IN /\ session.idx.train \cap session.idx.test = {}
           /\ \A i \in session.idx.train, j \in session.idx.test : i < j
           /\ session.idx.train = 1..(N - H)
           /\ session.idx.test = {N - H + v : v \in offsets}
           /\ Cardinality(session.idx.test) = Cardinality(offsets)
           /\ session.idx.train \cup session.idx.test \subseteq y_index(session)
           /\ (session.idx.train \cup session.idx.test = y_index(session)) <=> (offsets = 1..H)

C9_Witness ==
    /\ SetupReturned
    /\ session.fh.vals = <<1, 3>>
    /\ session.data.n = MaxN
    /\ Cardinality(session.idx.test) = 2

ModelOps == {"create_model", "create_model_cv", "tune_model", "predict_model", "finalize_model", "get_residuals"}

\* C2 as stated: once setup has fitted the pipeline, no call of
\* create_model, tune_model, predict_model, finalize_model, get_residuals
\* or load_model changes the session's pipeline.
C2_PipelineNeverAssigned ==
    [][(session._setup_ran /\ last'.op \in ModelOps \cup {"load_model"}) => session'.pipeline = session.pipeline]_vars

\* C2: once setup has fitted the pipeline, no call of create_model,
\* tune_model, predict_model, finalize_model or get_residuals changes the
\* session's pipeline: each works on a copy that holds the model.
\* load_model does assign the session's pipeline: to the loaded pipeline, or
\* to a new pipeline fitted around the loaded estimator.
C2_PipelineReadOnly ==
    [][/\ (session.pipeline.obj # "none" /\ last'.op \in ModelOps) => session'.pipeline = session.pipeline
       /\ (last'.op = "load_model") => (session'.pipeline.obj = "load" /\ session'.pipeline.fitted /\ session'.pipeline.model.y = est'.y)]_vars

C2_Witness ==
    /\ last.op = "create_model"
    /\ last.res.err = "none"
    /\ est.kind = "pipeline"
    /\ est.fitted
    /\ session.pipeline.obj = "setup"
    /\ session.pipeline.model.kind = "dummy"
    /\ session.pipeline.y = y_train_index(session)

\* a horizon argument predict_model can forecast: none, or positive offsets
UsableArg(fh) ==
    \/ fh.type = "none"
    \/ fh.type = "int" /\ fh.n >= 1
    \/ fh.type \in {"list", "ndarray"} /\ fh.vals # << >> /\ \A v \in Range(fh.vals) : v >= 1

TrainedOnTrain == has_X_test(session) /\ est.y = y_train_index(session)

TrainedOnFull == has_X_test(session) /\ est.y = y_index(session)

\* C3 as stated: predict_model computes holdout metrics only for an
\* estimator trained on the train-only index with no horizon from the
\* caller; for every other estimator and for every call with a horizon
\* from the caller, metrics and display are suppressed and the call returns
\* without raising.
C3_SuppressedNeverRaises ==
    (last.op = "predict_model" /\ UsableArg(last.arg_fh)) =>
        LET scored == TrainedOnTrain /\ last.arg_fh.type = "none"
        IN /\ (last.res.metrics = "computed") => scored
           /\ ~scored => (last.res.metrics # "computed" /\ ~last.res.verbose /\ last.res.err = "none")

\* C3: predict_model computes holdout metrics only for an estimator trained
\* on the train-only index with no horizon from the caller.  With a horizon
\* from the caller the provenance check is not made: nothing is scored,
\* shown or stored and the predictions are returned.  Without one, an
\* estimator trained on the full index is predicted and no score is
\* computed from data or shown, while an estimator trained on neither index
\* makes the call raise the provenance error when the session holds data,
\* and is predicted without scores when the session holds none.
C3_MetricsOnlyForTrainOnly ==
    (last.op = "predict_model" /\ UsableArg(last.arg_fh)) =>
        /\ (last.res.metrics = "computed") => (TrainedOnTrain /\ last.arg_fh.type = "none" /\ last.res.err = "none")
        /\ (last.arg_fh.type # "none") =>
              /\ last.res.err = "none"
              /\ last.res.which = "none"
              /\ last.res.metrics = "none" /\ ~last.res.verbose /\ ~last.res.stored
              /\ last.res.fh.vals = _check_fh(last.arg_fh).fh.vals
              /\ last.res.pred # {}
        /\ (last.arg_fh.type = "none" /\ TrainedOnFull) =>
              (last.res.err = "none" /\ last.res.which = "full" /\ last.res.metrics # "computed" /\ ~last.res.verbose)
        /\ (last.arg_fh.type = "none" /\ has_X_test(session) /\ ~TrainedOnTrain /\ ~TrainedOnFull) =>
              (last.res.err = "ProvenanceError" /\ last.res.pred = {} /\ last.res.metrics = "none")
        /\ (last.arg_fh.type = "none" /\ ~has_X_test(session)) =>
              (last.res.err = "none" /\ last.res.metrics = "none" /\ ~last.res.verbose)

C3_Witness ==
    /\ last.op = "predict_model"
    /\ last.arg_fh.type = "none"
    /\ session._setup_ran
    /\ ~TrainedOnTrain /\ ~TrainedOnFull
    /\ last.res.err = "ProvenanceError"

\* C4 as stated: predict_model without a horizon on a finalized estimator
\* classifies it as trained on the full index, and no holdout score record
\* is computed or stored for the call.
C4_NoScoreRecord ==
    (last.op = "predict_model" /\ last.arg_fh.type = "none" /\ session._setup_ran /\ TrainedOnFull) =>
        (last.res.err = "none" /\ last.res.which = "full" /\ last.res.metrics = "none" /\ ~last.res.stored)

\* C4: predict_model without a horizon on a finalized estimator classifies
\* it as trained on the full index; the prediction lies beyond the data, so
\* no score is computed from data and none is shown, but a score record
\* whose every metric is NaN is made and stored in the display container.
C4_FinalizedScoresNaN ==
    (last.op = "predict_model" /\ last.arg_fh.type = "none" /\ session._setup_ran /\ TrainedOnFull) =>
        /\ last.res.err = "none"
        /\ last.res.which = "full"
        /\ last.res.pred \cap y_index(session) = {}
        /\ last.res.metrics = "nan"
        /\ ~last.res.verbose
        /\ last.res.stored

C4_Witness ==
    /\ last.op = "predict_model"
    /\ last.arg_fh.type = "none"
    /\ session._setup_ran
    /\ session.pipeline.obj = "setup"
    /\ est.kind = "pipeline"
    /\ TrainedOnFull
    /\ last.res.metrics = "nan"

\* C5: every estimator returned by create_model, with or without
\* cross-validation, is a terminal forecaster whose last fit was on the
\* session's train-only index.
C5_ReturnsForecasterFitOnTrain ==
    (last.op \in {"create_model", "create_model_cv"} /\ last.res.err = "none") =>
        (est.kind = "model" /\ est.fitted /\ est.y = y_train_index(session))

\* C6: predict_model uses the horizon given by the caller; without one it
\* uses the estimator's own fitted horizon, also when the session's horizon
\* differs from it.
C6_EstimatorHorizonFirst ==
    (last.op = "predict_model" /\ last.res.err = "none") =>
        IF last.arg_fh.type # "none"
        THEN last.res.fh.vals = _check_fh(last.arg_fh).fh.vals
        ELSE last.res.fh = est.fh

\* C7 as stated: after setup no call of create_model, tune_model,
\* finalize_model, get_residuals, load_model or predict_model changes the
\* session's horizon.
C7_HorizonNeverAssigned ==
    [][(session._setup_ran /\ last'.op \in ModelOps \cup {"load_model"}) => session'.fh = session.fh]_vars

\* C7: after setup no call of create_model, tune_model, finalize_model,
\* get_residuals or predict_model (a horizon given to predict_model is used
\* for that call only), and no load_model of a file that holds a pipeline,
\* changes the session's horizon; load_model of a file that holds a bare
\* estimator sets the session's horizon to that estimator's horizon.
C7_HorizonKeptButByBareLoad ==
    [][/\ (session._setup_ran /\ last'.op \in ModelOps) => session'.fh = session.fh
       /\ (session._setup_ran /\ last'.op = "load_model" /\ last'.strategy = "bundled") => session'.fh = session.fh
       /\ (last'.op = "load_model" /\ last'.strategy = "bare") => session'.fh = est'.fh]_vars

C7_Witness ==
    /\ last.op = "predict_model"
    /\ last.arg_fh = FhInt(2)
    /\ last.res.err = "none"
    /\ last.res.fh.vals = <<1, 2>>
    /\ session._setup_ran
    /\ session.fh.vals = <<1>>

\* C10 as stated: _check_fh expands an integer n >= 1 to 1..n, fails on an
\* integer < 1 with the invalid-horizon error, uses a list or an array as
\* it is, and fails on every other type with the invalid-horizon-type
\* error.
C10_OnlyIntListArray ==
    (last.op = "_check_fh") =>
        /\ (last.arg_fh.type = "int" /\ last.arg_fh.n >= 1) => (last.res.err = "none" /\ last.res.fh.vals = arange1(last.arg_fh.n))
        /\ (last.arg_fh.type = "int" /\ last.arg_fh.n < 1) => last.res.err = "InvalidHorizonError"
        /\ (last.arg_fh.type \in {"list", "ndarray"}) => (last.res.err = "none" /\ last.res.fh.vals = last.arg_fh.vals)
        /\ (last.arg_fh.type \notin {"int", "list", "ndarray"}) => last.res.err = "InvalidHorizonTypeError"

\* C10: _check_fh expands an integer n >= 1 to 1..n, fails on an integer
\* < 1 with the invalid-horizon error, turns a list into an array with the
\* same values in the same order, returns an array or a ForecastingHorizon
\* as it is, and fails on every other type with the invalid-horizon-type
\* error.  setup's _check_and_set_fh, called with a named fold strategy,
\* lets only an integer, a list or an array through to _check_fh.
C10_CheckFh ==
    /\ (last.op = "_check_fh") =>
        /\ (last.arg_fh.type = "int" /\ last.arg_fh.n >= 1) =>
              (last.res.err = "none" /\ last.res.fh.type = "ndarray" /\ last.res.fh.vals = arange1(last.arg_fh.n))
        /\ (last.arg_fh.type = "int" /\ last.arg_fh.n < 1) => last.res.err = "InvalidHorizonError"
        /\ (last.arg_fh.type = "list") =>
              (last.res.err = "none" /\ last.res.fh.type = "ndarray" /\ last.res.fh.vals = last.arg_fh.vals)
        /\ (last.arg_fh.type \in {"ndarray", "ForecastingHorizon"}) => (last.res.err = "none" /\ last.res.fh = last.arg_fh)
        /\ (last.arg_fh.type \notin {"int", "list", "ndarray", "ForecastingHorizon"}) => last.res.err = "InvalidHorizonTypeError"
    /\ (last.op = "_check_and_set_fh" /\ last.strategy # "object") =>
        /\ (last.arg_fh.type = "none") => last.res.err = "MissingHorizonError"
        /\ (last.arg_fh.type \notin {"none", "int", "list", "ndarray"}) => last.res.err = "FhTypeError"
        /\ (last.arg_fh.type \in {"list", "ndarray"}) => (last.res.err = "none" /\ session.fh.vals = last.arg_fh.vals)
        /\ (last.arg_fh.type = "int") =>
              IF last.arg_fh.n >= 1 THEN last.res.err = "none" /\ session.fh.vals = arange1(last.arg_fh.n)
              ELSE last.res.err = "InvalidHorizonError"

C10_Witness ==
    /\ last.op = "_check_fh"
    /\ last.arg_fh = FhInt(MaxFhInt)
    /\ last.res.err = "none"
    /\ Len(last.res.fh.vals) = MaxFhInt

(***************************************************************************)
(* The seasonal period selection on its own: candidate periods and test    *)
(* outcomes are drawn, then _check_and_set_seasonal_period is applied.     *)
(***************************************************************************)
MaxSpLen == 3

SpInputs ==
    { [NoArgs EXCEPT !.data = GoodData(MaxN), !.seasonal_period = c, !.sp_tests = ts] :
          c \in SeqsUpTo(2..(MaxSpLen + 1), MaxSpLen), ts \in SeqsUpTo(BOOLEAN, MaxSpLen) }

InitSp ==
    /\ session = NewSession
    /\ est = NoEstimator
    /\ \E a \in SpInputs :
        /\ Len(a.sp_tests) = (IF a.seasonal_period = << >> THEN 1 ELSE Len(a.seasonal_period))
        /\ last = [Outcome("input", NoResult, FhNone, 0, "none", NoCV) EXCEPT !.args = a]

CheckAndSetSeasonalPeriod ==
    /\ last.op = "input"
    /\ LET sp == _check_and_set_seasonal_period(session, last.args.data, last.args.seasonal_period, last.args.sp_tests)
       IN session' = [session EXCEPT !.seasonality_tested_on = sp.tested_on,
                                     !.seasonal_period = sp.seasonal_period, !.seasonality_present = sp.seasonality_present,
                                     !.all_sp_values = sp.all_sp_values, !.primary_sp_to_use = sp.primary_sp_to_use]
    /\ last' = [last EXCEPT !.op = "_check_and_set_seasonal_period"]
    /\ UNCHANGED est

NextSp == CheckAndSetSeasonalPeriod

SpecSp == InitSp /\ [][NextSp]_vars

(***************************************************************************)
(* Horizon, fold strategy and preprocessing of setup.                      *)
(***************************************************************************)
\* C11: whenever the session has a horizon it is non-empty and each of its
\* offsets is strictly positive
C11_SessionHorizonPositive ==
    has_fh(session) => /\ session.fh.vals # << >>
                       /\ \A v \in Range(session.fh.vals) : v >= 1

\* a setup call with a splitter object as fold strategy
ObjectStrategySetup == last.op = "setup" /\ last.args.fold_strategy.name = "object"

\* the session took the horizon and the number of folds from the splitter
FollowsSplitter ==
    /\ session.fh = last.cv.fh
    /\ session.origin["fold_generator"] = "cur" =>
        /\ session.fold_generator = last.cv
        /\ session.fold_param = get_n_splits(last.cv, Cardinality(y_train_index(session)))

C13_UnknownStrategyRejected ==
    /\ (last.op = "setup" /\ last.strategy \notin {"expanding", "rolling", "sliding", "object"}
            /\ session.origin["idx"] = "cur")
        => last.res.err = "InvalidConfigError" /\ session.fold_generator = NoCV
    /\ (last.op = "get_fold_generator" /\ last.fold > 0
            /\ last.strategy \notin {"none", "expanding", "rolling", "sliding"}
            /\ session._setup_ran
            /\ initial_window(Cardinality(y_train_index(session)), session.fh, last.fold) >= 1)
        => last.res.err = "InvalidConfigError" /\ last.cv = NoCV

\* the steps the options of the call ask for, in pipeline order
RequestedSteps(imputation, transform, scale) ==
    (IF imputation # "none" THEN <<"numerical_imputer">> ELSE << >>)
        \o (IF transform # "none" THEN <<"transformer">> ELSE << >>)
        \o (IF scale # "none" THEN <<"scaler">> ELSE << >>)

\* a setup call on a sound table that asks for preprocessing of the target
TargetPreprocessingSetup ==
    /\ last.op = "setup"
    /\ last.args \in PreprocessArgs
    /\ last.args.preprocess
    /\ RequestedSteps(last.args.numeric_imputation_target, last.args.transform_target, last.args.scale_target) # << >>

\* C14: setup with imputation, transform or scaling of the target succeeds
\* and the target steps of the pipeline are the requested ones in the order
\* imputation, transform, scale, followed by the forecaster
C14_TargetStepsInOrder ==
    TargetPreprocessingSetup =>
        /\ last.res.err = "none"
        /\ session.pipeline.target_steps
            = RequestedSteps(last.args.numeric_imputation_target, last.args.transform_target, last.args.scale_target)
                \o <<"dummy_model">>

\* the same call without its exogenous preprocessing options
WithoutExogenousOptions(a) ==
    [a EXCEPT !.numeric_imputation_exogenous = "none", !.transform_exogenous = "none", !.scale_exogenous = "none"]

\* C15: on a table without exogenous columns the exogenous preprocessing
\* options are left out silently: setup ends as the same call without them
\* ends, and no exogenous step is added; an exogenous step is only ever
\* added when the table has exogenous columns and the option is set
C15_ExogenousOptionsOmitted ==
    /\ (last.op = "setup" /\ last.args \in PreprocessArgs /\ Len(last.args.data.cols) = 1)
        => /\ last.res.err = setup(NewSession, WithoutExogenousOptions(last.args)).err
           /\ session = setup(NewSession, WithoutExogenousOptions(last.args)).s
           /\ session.pipe_steps_exogenous = << >>
    /\ (last.op = "setup" /\ session.pipe_steps_exogenous # << >>)
        => /\ session.exogenous_present = "YES"
           /\ RequestedSteps(last.args.numeric_imputation_exogenous, last.args.transform_exogenous, last.args.scale_exogenous) # << >>

C15_Witness ==
    /\ last.op = "setup"
    /\ last.res.err = "none"
    /\ session._setup_ran
    /\ last.args.preprocess
    /\ Len(last.args.data.cols) = 1
    /\ last.args.numeric_imputation_exogenous = "mean"
    /\ last.args.transform_exogenous = "log"
    /\ last.args.scale_exogenous = "zscore"
    /\ session.pipe_steps_exogenous = << >>
    /\ session.pipeline.exogenous_steps = <<"forecaster">>

(***************************************************************************)
(* Seasonal periods, index and target of setup.                            *)
(***************************************************************************)
RECURSIVE PositiveCandidates(_, _)
\* the candidates whose test is positive, in the order of the candidates
PositiveCandidates(cands, tests) ==
    IF cands = << >> THEN << >>
    ELSE (IF Head(tests) THEN <<Head(cands)>> ELSE << >>) \o PositiveCandidates(Tail(cands), Tail(tests))

\* the candidate periods of a call: the hint, or the period of the index
CandidatesOf(a) == IF a.seasonal_period = << >> THEN <<a.data.freq_sp>> ELSE a.seasonal_period

\* C16: the detected periods are the candidates with a positive test in the
\* order of the candidates, or [1] when no test is positive; the primary
\* period is the first detected one; seasonality is present exactly when a
\* test is positive; one candidate that fails gives [1] and 1
C16_SeasonalPeriodSelection ==
    last.op = "_check_and_set_seasonal_period" =>
        LET cands == CandidatesOf(last.args)
            tests == SubSeq(last.args.sp_tests, 1, Len(cands))
            positive == PositiveCandidates(cands, tests)
        IN /\ session.all_sp_values = IF positive = << >> THEN <<1>> ELSE positive
           /\ session.primary_sp_to_use = Head(session.all_sp_values)
           /\ session.seasonality_present <=> (\E i \in 1..Len(cands) : tests[i])
           /\ (Len(cands) = 1 /\ ~tests[1])
                => session.all_sp_values = <<1>> /\ session.primary_sp_to_use = 1

C16_Witness ==
    /\ last.op = "_check_and_set_seasonal_period"
    /\ Len(last.args.seasonal_period) = 3
    /\ last.args.sp_tests = <<FALSE, TRUE, TRUE>>
    /\ session.all_sp_values = SubSeq(last.args.seasonal_period, 2, 3)
    /\ session.primary_sp_to_use = last.args.seasonal_period[2]
    /\ session.primary_sp_to_use # last.args.seasonal_period[3]

\* C17: in a setup that returns, the seasonality test was run on the
\* training split of the target passed through the fitted pipeline
C17_TestedOnTransformedTrain ==
    (last.op = "setup" /\ last.res.err = "none") =>
        /\ session.pipeline.fitted
        /\ session.seasonality_tested_on = y_train_transformed(session)

\* C18: promoting a date column without repeated values to the index gives
\* an index without duplicates or fails with the index-coercion error
C18_PromotionKeepsIndexUnique ==
    (last.op = "setup" /\ last.args.index # "none" /\ last.args.index = last.args.data.date_col
            /\ ~last.args.data.date_dup) =>
        /\ last.args.data.to_datetime = "collapse" => last.res.err = "IndexCoercionError"
        /\ session.origin["data"] = "cur" => ~session.data.dup
        /\ last.res.err = "none" => ~session.data.dup

\* C19: an index that is neither a period nor a datetime index is accepted
\* with a seasonal period hint and rejected without one, and once the index
\* is accepted the session never holds a datetime index
C19_IndexTypedOrHinted ==
    last.op = "setup" =>
        /\ (last.args.index = "none" /\ ~last.args.data.dup /\ last.args.data.index_type \notin {"period", "datetime"})
            => IF last.args.seasonal_period = << >>
               THEN last.res.err = "UnresolvableSeasonalityError" /\ session.index_type = "unset"
               ELSE last.res.err # "UnresolvableSeasonalityError" /\ session.index_type = last.args.data.index_type
        /\ session.index_type # "datetime"
        /\ session.data.index_type # "datetime"
        /\ session.index_type \notin {"unset", "period"} => last.args.seasonal_period # << >>

C19_Witness ==
    /\ last.op = "setup"
    /\ last.res.err = "none"
    /\ last.args.data.index_type = "datetime"
    /\ session.index_type = "period"
    /\ session.data.index_type = "period"

\* the index of the table of the call was accepted
IndexAccepted(a) == _check_and_clean_index(a.data, a.index, a.seasonal_period).err = "none"

TargetErrors == {"MissingTargetError", "TargetMismatchError", "TargetNotPresentError", "NonNumericTargetError"}

\* C20: the only column of a table is the target and another target is an
\* error; a table with more columns needs a target; a target that is not a
\* column or not numeric is rejected; a target that is set is one column
C20_TargetResolution ==
    (last.op = "setup" /\ IndexAccepted(last.args)) =>
        LET cols == last.args.data.cols
            given == last.args.target
            target == IF Len(cols) > 1 /\ is_list(given) /\ Len(list_items(given)) = 1 THEN list_items(given)[1] ELSE given
        IN /\ (Len(cols) = 1 /\ target \in {"none", cols[1]} /\ last.args.data.numeric)
                => last.res.err \notin TargetErrors /\ session.target_param = cols[1]
           /\ (Len(cols) = 1 /\ target \notin {"none", cols[1]})
                => last.res.err = "TargetMismatchError"
           /\ (Len(cols) > 1 /\ target = "none")
                => last.res.err = "MissingTargetError"
           /\ (Len(cols) > 1 /\ target \notin Range(cols) \cup {"none"})
                => last.res.err = "TargetNotPresentError"
           /\ (target = "y" /\ ~last.args.data.numeric)
                => last.res.err = "NonNumericTargetError"
           /\ last.res.err \in TargetErrors => session.target_param = "unset"
           /\ session.target_param # "unset"
                => session.target_param \in Range(cols) /\ (target # "none" => session.target_param = target)

C20_Witness ==
    /\ last.op = "setup"
    /\ last.res.err = "none"
    /\ Len(last.args.data.cols) = 2
    /\ last.args.target = "y"
    /\ session.target_param = "y"
    /\ session.exogenous_variables = <<"x">>

(***************************************************************************)
(* Approach of the session.                                                *)
(***************************************************************************)
\* C21: a session with one target column is univariate; a call that names
\* several target columns is rejected with the unsupported-approach error
\* and configures no session
C21_MultivariateRejected ==
    (last.op = "setup" /\ IndexAccepted(last.args)) =>
        /\ (is_list(last.args.target) /\ Len(list_items(last.args.target)) > 1)
            => /\ last.res.err = "UnsupportedApproachError"
               /\ ~session._setup_ran
               /\ session.target_param = "unset"
        /\ (session.target_param # "unset" /\ ~is_list(session.target_param))
            => session.approach_type = "UNI"

(***************************************************************************)
(* Residuals.                                                              *)
(***************************************************************************)
\* C22: for an estimator trained on the training series (resp. on the whole
\* series) get_residuals returns the residuals over exactly that index, the
\* rows without a prediction dropped, and None, without raising, when the
\* model family has no in-sample prediction
C22_ResidualsOverTrainingIndex ==
    (last.op = "get_residuals" /\ (TrainedOnTrain \/ TrainedOnFull)) =>
        /\ last.res.err = "none"
        /\ last.res.which = IF TrainedOnTrain THEN "train" ELSE "full"
        /\ IF est.insample
           THEN /\ ~last.res.returned_none
                /\ last.res.resid = est.y \ nan_predictions(est)
                /\ last.res.resid \subseteq (IF TrainedOnTrain THEN y_train_index(session) ELSE y_index(session))
           ELSE last.res.returned_none /\ last.res.resid = {}

C22_Witness ==
    /\ last.op = "get_residuals"
    /\ TrainedOnFull
    /\ est.insample
    /\ est.nan_rows = 1
    /\ last.res.err = "none"
    /\ last.res.resid = y_index(session) \ {1}

(***************************************************************************)
(* Loading.                                                                *)
(***************************************************************************)
\* C23: load_model leaves the session with a fitted pipeline and returns
\* the fitted last step of it; a loaded pipeline becomes the pipeline of the
\* session, and around a loaded bare estimator a pipeline without
\* transformation steps is built and fit on the series and the horizon of
\* that estimator, so that the returned estimator has the training index of
\* the saved one
C23_LoadLeavesFittedPipeline ==
    last.op = "load_model" =>
        /\ session.pipeline.fitted
        /\ session.pipeline.obj = "load"
        /\ est = _get_final_model_from_pipeline(session.pipeline)
        /\ est.fitted
        /\ est.y = last.art.model.y
        /\ ~last.art.bundled =>
            /\ session.pipeline.target_steps = <<"dummy_model">>
            /\ session.pipeline.exogenous_steps = <<"forecaster">>
            /\ session.pipeline.y = last.art.model.y
            /\ session.pipeline.fh = last.art.model.fh

C23_Witness ==
    /\ last.op = "load_model"
    /\ ~last.art.bundled
    /\ session._setup_ran
    /\ last.art.model.y # y_train_index(session)
    /\ est.y = last.art.model.y
    /\ session.pipeline.target_steps = <<"dummy_model">>

(***************************************************************************)
(* TSForecastingPreprocessor on its own: the step builders are called on   *)
(* a preprocessor as its constructor leaves it, and the keyword arguments  *)
(* of the transformers may be set in between.  An error is the exception   *)
(* class and, in `msg`, the wording that tells the raise statements apart. *)
(***************************************************************************)
MaxSteps == 2

\* the attributes after __init__: the trailing comma makes
\* transform_exogenous_kwargs the tuple (None,)
TSForecastingPreprocessor ==
    [NewSession EXCEPT !.pipe_steps_target = << >>, !.pipe_steps_exogenous = << >>,
                       !.transform_target_kwargs = "None", !.transform_exogenous_kwargs = "(None,)"]

\* bool(kwargs) and whether `**kwargs` is a mapping
truthy(kwargs) == kwargs \notin {"None", "{}"}
is_mapping(kwargs) == kwargs \notin {"None", "(None,)"}

extend(s, target, name) ==
    IF target THEN [s EXCEPT !.pipe_steps_target = @ \o <<name>>]
    ELSE [s EXCEPT !.pipe_steps_exogenous = @ \o <<name>>]

Rejected(s, err, msg) == [s |-> s, res |-> [NoResult EXCEPT !.err = err, !.msg = msg]]

Built(s, class, kwargs) == [s |-> s, res |-> [NoResult EXCEPT !.built = [class |-> class, kwargs |-> kwargs]]]

imputation_allowed_values == {"drift", "linear", "nearest", "mean", "median", "backfill", "bfill", "pad", "ffill", "random"}

\* variant: every method name of the sktime Imputer is let through
_add_imputation_steps_any_method(s, numeric_imputation, target) ==
    IF numeric_imputation.type = "str"
    THEN IF numeric_imputation.val \notin imputation_allowed_values \cup {"constant"}
         THEN Rejected(s, "ValueError", "not allowed")
         ELSE Built(extend(s, target, "numerical_imputer"), "Imputer", numeric_imputation.val)
    ELSE IF numeric_imputation.type \in {"int", "float"}
    THEN Built(extend(s, target, "numerical_imputer"), "Imputer", "constant")
    ELSE Rejected(s, "ValueError", "not of allowed type")

_add_imputation_steps(s, numeric_imputation, target) ==
    IF numeric_imputation.type = "str"
    THEN IF numeric_imputation.val \notin imputation_allowed_values
         THEN Rejected(s, "ValueError", "not allowed")
         ELSE Built(extend(s, target, "numerical_imputer"), "Imputer", numeric_imputation.val)
    ELSE IF numeric_imputation.type \in {"int", "float"}
    THEN Built(extend(s, target, "numerical_imputer"), "Imputer", "constant")
    ELSE Rejected(s, "ValueError", "not of allowed type")

transform_dict == {"box-cox", "log", "sqrt", "exp", "cos", "scaledlogit"}

\* variant: a selector that is not a string raises TypeError
_add_transformation_steps_type_error(s, transform, target) ==
    IF transform.type # "str" THEN Rejected(s, "TypeError", "not of allowed type")
    ELSE IF transform.val \notin transform_dict THEN Rejected(s, "ValueError", "not allowed")
    ELSE LET trans_kwargs ==
                 IF target
                 THEN IF truthy(s.transform_target_kwargs) THEN s.transform_exogenous_kwargs ELSE "{}"
                 ELSE IF truthy(s.transform_exogenous_kwargs) THEN s.transform_exogenous_kwargs ELSE "{}"
         IN IF ~is_mapping(trans_kwargs)
            THEN Rejected(s, "TypeError", "argument after ** must be a mapping")
            ELSE Built(extend(s, target, "transformer"), transform.val, trans_kwargs)

_add_transformation_steps(s, transform, target) ==
    IF transform.type # "str" THEN Rejected(s, "ValueError", "not of allowed type")
    ELSE IF transform.val \notin transform_dict THEN Rejected(s, "ValueError", "not allowed")
    ELSE LET trans_kwargs ==
                 IF target
                 THEN IF truthy(s.transform_target_kwargs) THEN s.transform_exogenous_kwargs ELSE "{}"
                 ELSE IF truthy(s.transform_exogenous_kwargs) THEN s.transform_exogenous_kwargs ELSE "{}"
         IN IF ~is_mapping(trans_kwargs)
            THEN Rejected(s, "TypeError", "argument after ** must be a mapping")
            ELSE Built(extend(s, target, "transformer"), transform.val, trans_kwargs)

scale_dict == {"zscore", "minmax", "maxabs", "robust"}

_add_scaling_steps(s, scale, target) ==
    IF scale.type # "str" THEN Rejected(s, "ValueError", "not of allowed type")
    ELSE IF scale.val \notin scale_dict THEN Rejected(s, "ValueError", "not allowed")
    ELSE Built(extend(s, target, "scaler"), scale.val, "{}")

\* bool(selector) for the selectors drawn below
selector_truthy(sel) == sel.type # "NoneType" /\ sel.val \notin {"", "0"}

\* _scaling: the target selector is tested for truth, the exogenous one
\* against None; the result of the last builder called is returned
_scaling(s, scale_target, scale_exogenous, exogenous_present) ==
    LET r1 == IF selector_truthy(scale_target) THEN _add_scaling_steps(s, scale_target, TRUE) ELSE Built(s, "none", "none")
    IN IF r1.res.err # "none" THEN r1
       ELSE IF exogenous_present = "YES" /\ scale_exogenous.type # "NoneType"
       THEN _add_scaling_steps(r1.s, scale_exogenous, FALSE)
       ELSE r1

ImputationSelectors ==
    {Sel("str", v) : v \in imputation_allowed_values \cup {"constant", "bogus"}}
        \cup {Sel("int", "0"), Sel("float", "1.5"), Sel("NoneType", "None"), Sel("list", "[]")}

TransformSelectors == {Sel("str", v) : v \in transform_dict \cup {"bogus"}} \cup {Sel("int", "0"), Sel("NoneType", "None")}

ScaleSelectors == {Sel("str", v) : v \in scale_dict \cup {"bogus", ""}} \cup {Sel("int", "0"), Sel("NoneType", "None")}

InitPre ==
    /\ session = TSForecastingPreprocessor
    /\ est = NoEstimator
    /\ last = Outcome("__init__", NoResult, FhNone, 0, "none", NoCV)

HasRoom == Len(session.pipe_steps_target) < MaxSteps /\ Len(session.pipe_steps_exogenous) < MaxSteps

StepCall(selector, target) ==
    [selector |-> selector, target |-> target, pipe_steps_target |-> session.pipe_steps_target, pipe_steps_exogenous |-> session.pipe_steps_exogenous]

AddImputationSteps ==
    /\ HasRoom
    /\ \E sel \in ImputationSelectors, target \in BOOLEAN :
        LET r == _add_imputation_steps(session, sel, target)
        IN /\ session' = r.s
           /\ last' = [Outcome("_add_imputation_steps", r.res, FhNone, 0, "none", NoCV) EXCEPT !.call = StepCall(sel, target)]
    /\ UNCHANGED est

AddTransformationSteps ==
    /\ HasRoom
    /\ \E sel \in TransformSelectors, target \in BOOLEAN :
        LET r == _add_transformation_steps(session, sel, target)
        IN /\ session' = r.s
           /\ last' = [Outcome("_add_transformation_steps", r.res, FhNone, 0, "none", NoCV) EXCEPT !.call = StepCall(sel, target)]
    /\ UNCHANGED est

AddScalingSteps ==
    /\ HasRoom
    /\ \E sel \in ScaleSelectors, target \in BOOLEAN :
        LET r == _add_scaling_steps(session, sel, target)
        IN /\ session' = r.s
           /\ last' = [Outcome("_add_scaling_steps", r.res, FhNone, 0, "none", NoCV) EXCEPT !.call = StepCall(sel, target)]
    /\ UNCHANGED est

\* _scaling with one selector set and the other None; `target` tells which
Scaling ==
    /\ HasRoom
    /\ \E sel \in ScaleSelectors, target \in BOOLEAN, exogenous_present \in {"YES", "NO"} :
        LET none == Sel("NoneType", "None")
            r == _scaling(session, IF target THEN sel ELSE none, IF target THEN none ELSE sel, exogenous_present)
        IN /\ session' = r.s
           /\ last' = [Outcome("_scaling", r.res, FhNone, 0, exogenous_present, NoCV) EXCEPT !.call = StepCall(sel, target)]
    /\ UNCHANGED est

\* the caller sets the keyword arguments of the transformers
SetTransformKwargs ==
    /\ last.op = "__init__"
    /\ \E t \in {"None", "{}", "target_kwargs"}, e \in {"(None,)", "None", "exogenous_kwargs"} :
        /\ session' = [session EXCEPT !.transform_target_kwargs = t, !.transform_exogenous_kwargs = e]
        /\ last' = Outcome("set_kwargs", NoResult, FhNone, 0, "none", NoCV)
    /\ UNCHANGED est

\* the pipeline is assembled from the step lists as setup does it:
\* _create_pipeline(dummy_model=DummyForecaster(),
\* target_steps=self.pipe_steps_target, exogenous_steps=self.pipe_steps_exogenous)
CreatePipeline ==
    /\ session.pipeline.obj = "none"
    /\ session' = [session EXCEPT !.pipeline = _create_pipeline("setup", DummyForecaster, session.pipe_steps_target, session.pipe_steps_exogenous),
                                  !.pipe_steps_target = _create_pipeline_steps(@, "dummy_model"),
                                  !.pipe_steps_exogenous = _create_pipeline_steps(@, "forecaster")]
    /\ last' = [Outcome("_create_pipeline", NoResult, FhNone, 0, "none", NoCV) EXCEPT !.call = StepCall(Sel("NoneType", "None"), TRUE)]
    /\ UNCHANGED est

NextPre ==
    \/ AddImputationSteps
    \/ AddTransformationSteps
    \/ AddScalingSteps
    \/ Scaling
    \/ SetTransformKwargs
    \/ CreatePipeline

SpecPre == InitPre /\ [][NextPre]_vars

(***************************************************************************)
(* The step builders.                                                      *)
(***************************************************************************)
\* the step list of the channel of the call and of the other channel
OwnSteps(s, target) == IF target THEN s.pipe_steps_target ELSE s.pipe_steps_exogenous
OtherSteps(s, target) == IF target THEN s.pipe_steps_exogenous ELSE s.pipe_steps_target

\* the call appended `name` to the list of its channel and nothing else
AppendedOne(name) ==
    /\ OwnSteps(session, last.call.target) = OwnSteps(last.call, last.call.target) \o <<name>>
    /\ OtherSteps(session, last.call.target) = OtherSteps(last.call, last.call.target)

\* the call left both step lists as they were
AppendedNone ==
    /\ session.pipe_steps_target = last.call.pipe_steps_target
    /\ session.pipe_steps_exogenous = last.call.pipe_steps_exogenous

\* C24: the imputation builder accepts a string exactly when it is one of
\* the ten method names and a number as the constant to fill with, rejects
\* every other value with ValueError, and on acceptance appends one
\* imputation step to the list of the channel asked for and leaves the
\* other list unchanged
C24_ImputationSelectors ==
    last.op = "_add_imputation_steps" =>
        LET sel == last.call.selector
            named == sel.type = "str" /\ sel.val \in {"drift", "linear", "nearest", "mean", "median", "backfill", "bfill", "pad", "ffill", "random"}
            numeric == sel.type \in {"int", "float"}
        IN IF named \/ numeric
           THEN /\ last.res.err = "none"
                /\ last.res.built = [class |-> "Imputer", kwargs |-> IF numeric THEN "constant" ELSE sel.val]
                /\ AppendedOne("numerical_imputer")
           ELSE /\ last.res.err = "ValueError"
                /\ last.res.built = NotBuilt
                /\ AppendedNone

C24_Witness ==
    /\ last.op = "_add_imputation_steps"
    /\ ~last.call.target
    /\ last.call.selector = Sel("float", "1.5")
    /\ last.res.err = "none"
    /\ last.call.pipe_steps_target # << >>
    /\ session.pipe_steps_target = last.call.pipe_steps_target
    /\ session.pipe_steps_exogenous = last.call.pipe_steps_exogenous \o <<"numerical_imputer">>

\* the selector of the call names no transformer, resp. no scaler
UnknownTransform == last.call.selector.type = "str" /\ last.call.selector.val \notin {"box-cox", "log", "sqrt", "exp", "cos", "scaledlogit"}
UnknownScale == last.call.selector.type = "str" /\ last.call.selector.val \notin {"zscore", "minmax", "maxabs", "robust"}

\* C25 as stated: an unknown transform string is rejected with the
\* invalid-configuration error (ValueError) and a selector that is not a
\* string with an error of another kind; an unknown scaling selector is
\* rejected on both channels; a rejected selector appends no step
C25_TypeErrorDistinct ==
    /\ last.op = "_add_transformation_steps" =>
        /\ UnknownTransform => last.res.err = "ValueError"
        /\ last.call.selector.type # "str" => last.res.err \notin {"none", "ValueError"}
        /\ last.res.err # "none" => AppendedNone
    /\ last.op = "_add_scaling_steps" =>
        /\ UnknownScale => last.res.err = "ValueError"
        /\ last.res.err # "none" => AppendedNone

\* C25: the transform builder rejects an unknown string and a selector that
\* is not a string with the same exception class, ValueError, in different
\* words; the scaling builder rejects an unknown selector with ValueError on
\* both channels; a rejected selector appends no step to either list
C25_SameErrorOtherWords ==
    /\ last.op = "_add_transformation_steps" =>
        /\ UnknownTransform => last.res.err = "ValueError" /\ last.res.msg = "not allowed"
        /\ last.call.selector.type # "str" => last.res.err = "ValueError" /\ last.res.msg = "not of allowed type"
        /\ last.res.err # "none" => AppendedNone /\ last.res.built = NotBuilt
    /\ last.op = "_add_scaling_steps" =>
        /\ UnknownScale => last.res.err = "ValueError" /\ last.res.msg = "not allowed"
        /\ last.call.selector.type # "str" => last.res.err = "ValueError" /\ last.res.msg = "not of allowed type"
        /\ last.res.err # "none" => AppendedNone /\ last.res.built = NotBuilt
    /\ (last.op = "_scaling" /\ UnknownScale /\ last.call.selector.val # ""
            /\ (last.call.target \/ last.strategy = "YES"))
        => last.res.err = "ValueError" /\ last.res.msg = "not allowed" /\ AppendedNone

C25_Witness ==
    /\ last.op = "_add_transformation_steps"
    /\ last.call.selector.type = "int"
    /\ last.res.err = "ValueError"
    /\ last.res.msg = "not of allowed type"
    /\ session.pipe_steps_target # << >>
    /\ session.pipe_steps_target = last.call.pipe_steps_target

\* keyword arguments that were configured for a channel
Configured(kwargs) == kwargs \in {"target_kwargs", "exogenous_kwargs"}

\* C28: a transformer of a channel is built with the keyword arguments
\* configured for that channel, or with none; the exogenous arguments never
\* reach the target transformer; with no arguments configured the
\* transformation step of either channel is added
C28_KwargsPerChannel ==
    (last.op = "_add_transformation_steps" /\ last.call.selector.type = "str" /\ ~UnknownTransform) =>
        LET own == IF last.call.target THEN session.transform_target_kwargs ELSE session.transform_exogenous_kwargs
        IN /\ last.res.err = "none"
           /\ last.res.built = [class |-> last.call.selector.val, kwargs |-> IF Configured(own) THEN own ELSE "{}"]
           /\ last.call.target => last.res.built.kwargs # "exogenous_kwargs"
           /\ AppendedOne("transformer")

\* C29: _create_pipeline leaves the step lists it is given as they were,
\* empty or not: no "dummy_model" and no "forecaster" entry is added to them
C29_StepListsUnchanged ==
    last.op = "_create_pipeline" =>
        /\ AppendedNone
        /\ session.pipeline.target_steps = last.call.pipe_steps_target \o <<"dummy_model">>
        /\ session.pipeline.exogenous_steps = last.call.pipe_steps_exogenous \o <<"forecaster">>

(***************************************************************************)
(* Folds.                                                                  *)
(***************************************************************************)
\* C26: a fold generator that get_fold_generator builds for an integer fold
\* count F yields F folds over the N training rows; the training window of
\* every fold has at least one row (initial_window rows when sliding), no
\* test row lies after the last training row, and the largest test row of
\* the last fold is the last training row
C26_FoldsFitTrainingData ==
    (/\ last.op = "get_fold_generator"
     /\ last.fold >= 1
     /\ last.res.err = "none") =>
        LET N == Cardinality(y_train_index(session))
            folds == split(last.cv, N)
        IN /\ last.cv.kind = IF (IF last.strategy = "none" THEN session.fold_strategy ELSE last.strategy) = "sliding"
                             THEN "SlidingWindowSplitter" ELSE "ExpandingWindowSplitter"
           /\ Len(folds) = last.fold
           /\ \A k \in 1..Len(folds) :
                /\ folds[k].train # {}
                /\ folds[k].train \subseteq 1..N
                /\ folds[k].test \subseteq 1..N
                /\ \A i \in folds[k].train, j \in folds[k].test : i < j \/ j \in folds[k].train
                /\ last.cv.kind = "SlidingWindowSplitter" => Cardinality(folds[k].train) = last.cv.initial_window
                /\ last.cv.kind = "ExpandingWindowSplitter" => folds[k].train = 1..(last.cv.initial_window + (k - 1) * Len(session.fh.vals))
           /\ SetMax(folds[Len(folds)].test) = N

C26_Witness ==
    /\ last.op = "get_fold_generator"
    /\ last.res.err = "none"
    /\ last.fold = 2
    /\ last.cv.kind = "SlidingWindowSplitter"
    /\ SetMax(Range(session.fh.vals)) > Len(session.fh.vals)
    /\ Len(split(last.cv, Cardinality(y_train_index(session)))) = 2

(***************************************************************************)
(* The caller's fit_kwargs: a session is set up, then models are created   *)
(* and tuned with every kind of fit_kwargs.                                *)
(***************************************************************************)
CreateModelFitKwargs == CreateModelWith(FitKwargs)

TuneModelFitKwargs == TuneModelWith(FitKwargs)

NextFit ==
    \/ SetupOnce
    \/ CreateModelFitKwargs
    \/ TuneModelFitKwargs

SpecFit == Init /\ [][NextFit]_vars

\* C27: create_model with cross-validation and tune_model leave the
\* dictionary the caller passed as fit_kwargs as it was: the same keys, and
\* the same value under "fh" if it had one
C27_FitKwargsUnchanged ==
    (/\ last.op \in {"create_model_cv", "tune_model"}
     /\ last.fit_kwargs.obj = "caller") =>
        /\ last.res.fit_kwargs.keys = last.fit_kwargs.keys
        /\ last.res.fit_kwargs.fh = last.fit_kwargs.fh

(***************************************************************************)
(* The residual check on its own: a session is set up, then                *)
(* _check_and_clean_resid is applied to a residual series.  Its index is a *)
(* run of rows that starts at the first or the second row and ends at most *)
(* one row past the data, whole or with its second or third row missing;   *)
(* its first row may hold NaN.                                             *)
(***************************************************************************)
ResidualSeries(s) ==
    {[index |-> (a..b) \ drop, nan |-> nan] :
        a \in 1..2, b \in 1..(s.data.n + 1), drop \in {{}, {2}, {3}}, nan \in {{}, {1}}}

CheckAndCleanResid ==
    /\ has_X_test(session)
    /\ \E resid \in ResidualSeries(session) :
        LET r == _check_and_clean_resid(session, resid)
        IN last' = [Outcome("_check_and_clean_resid", [NoResult EXCEPT !.err = r.err, !.resid = r.index], FhNone, 0, "none", NoCV)
                    EXCEPT !.resid = resid]
    /\ UNCHANGED <<session, est>>

NextResid ==
    \/ SetupOnce
    \/ CheckAndCleanResid

SpecResid == Init /\ [][NextResid]_vars

\* C30: _check_and_clean_resid accepts a residual series only if its index
\* is the index of the training set or the index of the full data; a series
\* as long as one of them whose index differs from it in some row, and a
\* series as long as neither, is rejected
C30_ResidualIndexMatches ==
    (/\ last.op = "_check_and_clean_resid"
     /\ last.res.err = "none") =>
        last.resid.index \in {y_train_index(session), y_index(session)}

====
